---- MODULE Spec2Model ----
(***************************************************************************)
(* A model of zfs_space_visualizer: the Data Manager with its snapshot     *)
(* cache, the background prefetch engine, the sort engine and the          *)
(* navigation state machine driven by key events.                          *)
(*                                                                         *)
(* Names are strings.  Sizes are in GiB.  The Inventory Source (the zfs    *)
(* and zpool commands) is the variable "zfs" together with the outcome of  *)
(* each invocation, which every action draws from a small set.             *)
(***************************************************************************)
EXTENDS Integers, Sequences, FiniteSets, TLC

(***************************************************************************)
(* Bounds of the model.                                                    *)
(***************************************************************************)
\* Pools of the Inventory Source: up to MaxPools of tank and backup.  The
\* prefetch scenario runs on 1..MaxPools pools, the others on one pool.
MaxPools == 2
\* Snapshots that dataset tank/home holds when the program starts.
MaxSnapshots == 2
\* The --threads values tried: 1..MaxThreads, and "not given".
MaxThreads == 2
\* Visible heights tried by a redraw: 0..MaxHeight.
MaxHeight == 2
\* Rows of the lists that the selection movement is tried on: 0..MaxRows.
MaxRows == 12

(***************************************************************************)
(* Program constants.                                                      *)
(***************************************************************************)
PAGE_SIZE == 10
DELETE_CONFIRMATION_TIMEOUT_SECS == 3
IO_CONCURRENCY_MULTIPLIER == 8

(***************************************************************************)
(* Small helpers.                                                          *)
(***************************************************************************)
Min(a, b) == IF a < b THEN a ELSE b

Max(a, b) == IF a > b THEN a ELSE b

\* usize::saturating_sub
SatSub(a, b) == IF a > b THEN a - b ELSE 0

\* slice.get(i) on a 0-based index: is there an element
HasIndex(seq, i) == i < Len(seq)

\* slice[i] for a 0-based index
At(seq, i) == seq[i + 1]

Range(seq) == {seq[i] : i \in 1..Len(seq)}

(***************************************************************************)
(* String comparison.  Every name of the model appears once in NameOrder,  *)
(* which is in the order of str::cmp (byte-wise lexicographic).            *)
(***************************************************************************)
NameOrder == <<"backup", "backup/daily", "backup/daily@2024-01-15",
               "tank", "tank/home",
               "tank/home@daily-2024-01-14", "tank/home@daily-2024-01-15",
               "tank/home@monthly-2024-01-01", "tank/home@weekly-2024-01-08">>

NameRank(n) == CHOOSE i \in 1..Len(NameOrder) : NameOrder[i] = n

\* Ordering::cmp on two names: "Less", "Equal" or "Greater"
Cmp(a, b) == IF a < b THEN "Less" ELSE IF a = b THEN "Equal" ELSE "Greater"

(***************************************************************************)
(* The mock tables of zfs.rs, cut down to the first MaxPools of the pools   *)
(* tank and backup (and to the pools of the machine, where it has fewer),  *)
(* the datasets tank, tank/home and backup/daily, and the                  *)
(* first MaxSnapshots snapshots of tank/home.                              *)
(***************************************************************************)
MockPools == SubSeq(<<[name |-> "tank"], [name |-> "backup"]>>, 1, Min(MaxPools, 2))

MockDatasets(pool_name) ==
    CASE pool_name = "tank" ->
           <<[name |-> "tank", referenced |-> 1, snapshot_used |-> 500],
             [name |-> "tank/home", referenced |-> 600, snapshot_used |-> 200]>>
      [] pool_name = "backup" ->
           <<[name |-> "backup/daily", referenced |-> 800, snapshot_used |-> 200]>>
      [] OTHER -> <<>>

MockSnapshots(dataset_name) ==
    CASE dataset_name = "tank/home" ->
         SubSeq(
           <<[name |-> "tank/home@daily-2024-01-15", used |-> 50, referenced |-> 600],
             [name |-> "tank/home@daily-2024-01-14", used |-> 30, referenced |-> 580],
             [name |-> "tank/home@weekly-2024-01-08", used |-> 80, referenced |-> 520],
             [name |-> "tank/home@monthly-2024-01-01", used |-> 40, referenced |-> 450]>>,
           1, Min(MaxSnapshots, 4))
      [] dataset_name = "backup/daily" ->
           <<[name |-> "backup/daily@2024-01-15", used |-> 50, referenced |-> 800]>>
      [] OTHER -> <<>>

DatasetNames ==
    UNION {{d.name : d \in Range(MockDatasets(p.name))} : p \in Range(MockPools)}

(***************************************************************************)
(* The Inventory Source.  The pools and datasets that exist are those of   *)
(* the tables above; zfs[d] is the set of snapshot names that dataset d    *)
(* holds now.  A listing prints them in the table's order, and it is       *)
(* recursive: the snapshots of tank/home are listed under tank as well.    *)
(***************************************************************************)
\* `zpool list` on a machine that has the first pool_count pools
ZpoolList(pool_count) == SubSeq(MockPools, 1, Min(pool_count, Len(MockPools)))

ZfsListDatasets(pool_name) == MockDatasets(pool_name)

\* `zfs list -r name`: the datasets at and below name, in the order listed
Below(dataset_name) ==
    CASE dataset_name = "tank" -> <<"tank", "tank/home">>
      [] OTHER -> <<dataset_name>>

RECURSIVE SnapshotsOfFirst(_, _, _)
\* the snapshots that the first n datasets of names hold, in the order listed
SnapshotsOfFirst(world, names, n) ==
    IF n = 0 THEN <<>>
    ELSE SnapshotsOfFirst(world, names, n - 1)
         \o SelectSeq(MockSnapshots(names[n]), LAMBDA s : s.name \in world[names[n]])

\* `zfs list -t snap -r dataset_name`
ZfsListSnapshots(world, dataset_name) ==
    SnapshotsOfFirst(world, Below(dataset_name), Len(Below(dataset_name)))

\* the dataset a snapshot name belongs to (the text before '@')
DatasetOfSnapshot(snapshot_name) ==
    CHOOSE d \in DatasetNames :
        \E i \in 1..Len(MockSnapshots(d)) : MockSnapshots(d)[i].name = snapshot_name

\* An invocation of the tool: it succeeds, it fails (non-zero exit or not
\* installed), or it succeeds and prints bytes that are not UTF-8.
FetchOutcomes == {"success", "toolfail", "badutf8"}

Ok(v) == [ok |-> TRUE, value |-> v]

Err == [ok |-> FALSE, value |-> <<>>]

\* the mock table is cut to as many pools as the machine has
get_pools(pool_count, outcome) ==
    CASE outcome = "success"  -> Ok(ZpoolList(pool_count))
      [] outcome = "toolfail" -> Ok(SubSeq(MockPools, 1, Min(pool_count, Len(MockPools))))
      [] outcome = "badutf8"  -> Err

get_datasets(pool_name, outcome) ==
    CASE outcome = "success"  -> Ok(ZfsListDatasets(pool_name))
      [] outcome = "toolfail" -> Ok(MockDatasets(pool_name))
      [] outcome = "badutf8"  -> Err

\* a get_snapshots that reports a failed tool instead of the mock table
get_snapshots_or_fail(world, dataset_name, outcome) ==
    CASE outcome = "success"  -> Ok(ZfsListSnapshots(world, dataset_name))
      [] outcome = "toolfail" -> Err
      [] outcome = "badutf8"  -> Err

get_snapshots(world, dataset_name, outcome) ==
    CASE outcome = "success"  -> Ok(ZfsListSnapshots(world, dataset_name))
      [] outcome = "toolfail" -> Ok(MockSnapshots(dataset_name))
      [] outcome = "badutf8"  -> Err

(***************************************************************************)
(* Snapshot deletion.  An error is the set of the markers its diagnostic   *)
(* text contains; deleting a snapshot that does not exist fails with       *)
(* "dataset does not exist".                                               *)
(***************************************************************************)
ErrorMarkers == {"permission denied", "dataset does not exist", "dataset is busy"}

DeleteOutcomes ==
    [ok : {FALSE}, error : SUBSET ErrorMarkers] \cup {[ok |-> TRUE, error |-> {}]}

\* delete_snapshot: its result, and the Inventory Source after it
delete_snapshot(world, snapshot_name, outcome) ==
    LET d == DatasetOfSnapshot(snapshot_name)
    IN  IF snapshot_name \notin world[d]
        THEN [ok |-> FALSE, error |-> {"dataset does not exist"}, zfs |-> world]
        ELSE IF outcome.ok
             THEN [ok |-> TRUE, error |-> {},
                   zfs |-> [world EXCEPT ![d] = @ \ {snapshot_name}]]
             ELSE [ok |-> FALSE, error |-> outcome.error, zfs |-> world]

(***************************************************************************)
(* Sort engine (sorting.rs).                                               *)
(***************************************************************************)
DatasetSortValues == <<"TotalSizeDesc", "TotalSizeAsc", "DatasetSizeDesc", "DatasetSizeAsc",
                       "SnapshotSizeDesc", "SnapshotSizeAsc", "NameDesc", "NameAsc">>

SnapshotSortValues == <<"UsedDesc", "UsedAsc", "ReferencedDesc",
                        "ReferencedAsc", "NameDesc", "NameAsc">>

IndexOf(values, v) == (CHOOSE i \in 1..Len(values) : values[i] = v) - 1

\* a next() that stays on the last sort order instead of wrapping
next_without_wrap(order) ==
    LET current_idx == IndexOf(DatasetSortValues, order)
    IN  At(DatasetSortValues, Min(current_idx + 1, Len(DatasetSortValues) - 1))

DatasetSortOrderNext(order) ==
    LET current_idx == IndexOf(DatasetSortValues, order)
    IN  At(DatasetSortValues, (current_idx + 1) % Len(DatasetSortValues))

SnapshotSortOrderNext(order) ==
    LET current_idx == IndexOf(SnapshotSortValues, order)
    IN  At(SnapshotSortValues, (current_idx + 1) % Len(SnapshotSortValues))

\* the closure sort_datasets hands to sort_by, for each sort order
DatasetCompare(order, a, b) ==
    CASE order = "TotalSizeDesc" ->
           Cmp(b.referenced + b.snapshot_used, a.referenced + a.snapshot_used)
      [] order = "TotalSizeAsc" ->
           Cmp(a.referenced + a.snapshot_used, b.referenced + b.snapshot_used)
      [] order = "DatasetSizeDesc"  -> Cmp(b.referenced, a.referenced)
      [] order = "DatasetSizeAsc"   -> Cmp(a.referenced, b.referenced)
      [] order = "SnapshotSizeDesc" -> Cmp(b.snapshot_used, a.snapshot_used)
      [] order = "SnapshotSizeAsc"  -> Cmp(a.snapshot_used, b.snapshot_used)
      [] order = "NameDesc" -> Cmp(NameRank(b.name), NameRank(a.name))
      [] order = "NameAsc"  -> Cmp(NameRank(a.name), NameRank(b.name))

\* the closure sort_snapshots hands to sort_by, for each sort order
SnapshotCompare(order, a, b) ==
    CASE order = "UsedDesc" -> Cmp(b.used, a.used)
      [] order = "UsedAsc"  -> Cmp(a.used, b.used)
      [] order = "ReferencedDesc" -> Cmp(b.referenced, a.referenced)
      [] order = "ReferencedAsc"  -> Cmp(a.referenced, b.referenced)
      [] order = "NameDesc" -> Cmp(NameRank(b.name), NameRank(a.name))
      [] order = "NameAsc"  -> Cmp(NameRank(a.name), NameRank(b.name))

\* slice::sort_by is a stable sort: x goes before the first element that
\* compares Greater than it, so equal elements keep their order.
InsertSorted(sorted, x, Compare(_, _)) ==
    LET greater == {i \in 1..Len(sorted) : Compare(sorted[i], x) = "Greater"}
        pos == IF greater = {} THEN Len(sorted) + 1
               ELSE CHOOSE i \in greater : \A j \in greater : i <= j
    IN  SubSeq(sorted, 1, pos - 1) \o <<x>> \o SubSeq(sorted, pos, Len(sorted))

RECURSIVE SortDatasetsPrefix(_, _, _)
\* the first n datasets of ds, sorted
SortDatasetsPrefix(order, ds, n) ==
    LET Compare(a, b) == DatasetCompare(order, a, b)
    IN  IF n = 0 THEN <<>>
        ELSE InsertSorted(SortDatasetsPrefix(order, ds, n - 1), ds[n], Compare)

RECURSIVE SortSnapshotsPrefix(_, _, _)
\* the first n snapshots of snaps, sorted
SortSnapshotsPrefix(order, snaps, n) ==
    LET Compare(a, b) == SnapshotCompare(order, a, b)
    IN  IF n = 0 THEN <<>>
        ELSE InsertSorted(SortSnapshotsPrefix(order, snaps, n - 1), snaps[n], Compare)

\* a sort_datasets that leaves the list in the order it came in
datasets_as_listed(order, ds) == ds

sort_datasets(order, ds) == SortDatasetsPrefix(order, ds, Len(ds))

\* a sort_snapshots that leaves the list in the order it came in
snapshots_as_listed(order, snaps) == snaps

sort_snapshots(order, snaps) == SortSnapshotsPrefix(order, snaps, Len(snaps))

(***************************************************************************)
(* Option<T>: None is the empty sequence, Some(x) the sequence <<x>>.      *)
(***************************************************************************)
NoneOpt == <<>>

Some(x) == <<x>>

IsSome(o) == o # <<>>

Unwrap(o) == o[1]

(***************************************************************************)
(* AppView (state.rs).                                                     *)
(***************************************************************************)
PoolList == [kind |-> "PoolList", pool |-> "", dataset |-> ""]

DatasetView(pool_name) == [kind |-> "DatasetView", pool |-> pool_name, dataset |-> ""]

SnapshotDetail(pool_name, dataset_name) ==
    [kind |-> "SnapshotDetail", pool |-> pool_name, dataset |-> dataset_name]

Help == [kind |-> "Help", pool |-> "", dataset |-> ""]

(***************************************************************************)
(* Config (config.rs).                                                     *)
(***************************************************************************)
\* threads is None or Some(n); cpu_count is available_parallelism()
effective_thread_count(threads, cpu_count) ==
    Max(IF IsSome(threads) THEN Unwrap(threads)
        ELSE cpu_count * IO_CONCURRENCY_MULTIPLIER, 1)

\* Config::validate: main exits on a thread count of 0 or above 1000
validate(threads) == IsSome(threads) => (Unwrap(threads) # 0 /\ Unwrap(threads) <= 1000)

(***************************************************************************)
(* The state.                                                              *)
(***************************************************************************)
VARIABLES
    zfs,                 \* Inventory Source: dataset name -> snapshot names it holds
    state,               \* AppState, with its config, data_manager (pools, datasets,
                         \* snapshots), sort_manager and theme_manager fields
    snapshot_cache,      \* DataManager.snapshot_cache: a map dataset name -> snapshots
    prefetch_complete,   \* DataManager.prefetch_complete
    prefetch_total,      \* DataManager.prefetch_total
    prefetch_completed,  \* DataManager.prefetch_completed
    thread_count,        \* DataManager.thread_count
    run,                 \* where App::run is: "start", "loop", "quit", "failed"
    pf_pc,               \* where the prefetch task is
    pf_pool,             \* the index of the pool it lists next
    all_datasets,        \* its all_datasets
    permits,             \* the permits the semaphore has left
    tasks,               \* the per-dataset tasks: [dataset, pc, result]
    progress,            \* the renderer's call of get_prefetch_progress: where it
                         \* is, and the total and completed counts it has loaded
    last,                \* what the last iteration of App::run called (history)
    loaded               \* per dataset, what load_snapshots returned for it since
                         \* the cache entry was last written by someone else (history)

vars == <<zfs, state, snapshot_cache, prefetch_complete, prefetch_total,
          prefetch_completed, thread_count, progress, run, pf_pc, pf_pool, all_datasets,
          permits, tasks, last, loaded>>

prefetchVars == <<prefetch_complete, prefetch_total, prefetch_completed,
                  pf_pc, pf_pool, all_datasets, permits, tasks>>

\* the key help of the snapshot view (a text is the sequence of the pieces
\* that format! joins)
KeyHelpText == <<"Navigate | Page | d: Delete | s: Sort | Back | h: Help | q: Quit">>

\* AppState::default, with the Config handed to App::new
InitialState(readonly) ==
    [should_quit |-> FALSE,
     current_view |-> PoolList,
     previous_view |-> NoneOpt,
     selected_pool_index |-> 0,
     selected_dataset_index |-> 0,
     selected_snapshot_index |-> 0,
     dataset_scroll_offset |-> 0,
     snapshot_scroll_offset |-> 0,
     pools |-> <<>>,
     datasets |-> <<>>,
     snapshots |-> <<>>,
     dataset_sort_order |-> "TotalSizeDesc",
     snapshot_sort_order |-> "UsedDesc",
     current_theme |-> "Dark",
     selected_theme_index |-> 0,
     delete_confirmation_pending |-> FALSE,
     delete_confirmation_timestamp |-> NoneOpt,
     error_message |-> NoneOpt,
     status_help_text |-> KeyHelpText,
     readonly |-> readonly]

\* the history record of a step that called nothing
NoCalls == [op |-> "", name |-> "", cache_before |-> "", loaded_before |-> "",
            fetches |-> 0, cache_writes |-> 0, written |-> NoneOpt,
            deletes |-> 0, result |-> "Ok", expired |-> FALSE, height |-> NoneOpt]

(***************************************************************************)
(* A key handler runs on a record m: the AppState (m.state), the snapshot  *)
(* cache (m.cache), the Inventory Source (m.zfs) and the log of what it    *)
(* called (m.log).  m.log.result = "Err" once a `?` has returned early.    *)
(* The log names the Data Manager call made (op, name), what the cache     *)
(* held for that name before it (cache_before), and counts the calls of    *)
(* get_datasets and get_snapshots (fetches), of cache_snapshots            *)
(* (cache_writes, with the                                                 *)
(* list written) and of delete_snapshot (deletes).  The loop adds whether  *)
(* its tick found the delete confirmation expired (expired) and the        *)
(* visible height of the draw that followed (height).                      *)
(***************************************************************************)
Machine(st, cache, world) ==
    [state |-> st, cache |-> cache, zfs |-> world, log |-> NoCalls]

(***************************************************************************)
(* Data Manager (data.rs).                                                 *)
(***************************************************************************)
\* HashMap::get(..).cloned() under the lock
get_cached_snapshots(cache, dataset_name) ==
    IF dataset_name \in DOMAIN cache THEN Some(cache[dataset_name]) ELSE NoneOpt

\* an insert into a fresh map: every other entry is gone
CacheReplace(cache, dataset_name, snaps) == [k \in {dataset_name} |-> snaps]

\* HashMap::insert
CacheInsert(cache, dataset_name, snaps) ==
    [k \in DOMAIN cache \cup {dataset_name} |->
        IF k = dataset_name THEN snaps ELSE cache[k]]

\* a cache_snapshots that writes nothing
cache_nothing(m, dataset_name) == m

\* cache_snapshots: the manager's snapshots go into the cache under dataset_name
cache_snapshots(m, dataset_name) ==
    [m EXCEPT !.cache = CacheInsert(@, dataset_name, m.state.snapshots),
              !.log.cache_writes = @ + 1,
              !.log.written = Some(m.state.snapshots)]

CacheKind(cache, dataset_name) ==
    IF dataset_name \notin DOMAIN cache THEN "absent"
    ELSE IF cache[dataset_name] = <<>> THEN "empty" ELSE "nonempty"

load_datasets(m, pool_name, outcome) ==
    LET r == get_datasets(pool_name, outcome)
        m1 == [m EXCEPT !.log.op = "load_datasets", !.log.name = pool_name,
                        !.log.fetches = @ + 1]
    IN  IF r.ok THEN [m1 EXCEPT !.state.datasets = r.value]
        ELSE [m1 EXCEPT !.log.result = "Err"]

\* a load_snapshots that takes any cache entry, an empty one too, as a hit
load_from_any_entry(m, dataset_name, outcome) ==
    LET cached == get_cached_snapshots(m.cache, dataset_name)
        m0 == [m EXCEPT !.log.op = "load_snapshots", !.log.name = dataset_name,
                        !.log.cache_before = CacheKind(m.cache, dataset_name)]
    IN  IF IsSome(cached)
        THEN [m0 EXCEPT !.state.snapshots = Unwrap(cached)]
        ELSE LET r == get_snapshots(m0.zfs, dataset_name, outcome)
                 m2 == [m0 EXCEPT !.state.snapshots = <<>>, !.log.fetches = @ + 1]
             IN  IF r.ok
                 THEN cache_snapshots([m2 EXCEPT !.state.snapshots = r.value], dataset_name)
                 ELSE [m2 EXCEPT !.log.result = "Err"]

load_snapshots(m, dataset_name, outcome) ==
    LET cached == get_cached_snapshots(m.cache, dataset_name)
        m0 == [m EXCEPT !.log.op = "load_snapshots", !.log.name = dataset_name,
                        !.log.cache_before = CacheKind(m.cache, dataset_name)]
        m1 == [m0 EXCEPT !.state.snapshots = IF IsSome(cached) THEN Unwrap(cached) ELSE <<>>]
    IN  IF m1.state.snapshots = <<>>
        THEN LET r == get_snapshots(m1.zfs, dataset_name, outcome)
                 m2 == [m1 EXCEPT !.log.fetches = @ + 1]
             IN  IF r.ok
                 THEN cache_snapshots([m2 EXCEPT !.state.snapshots = r.value], dataset_name)
                 ELSE [m2 EXCEPT !.log.result = "Err"]
        ELSE m1

\* a reload_snapshots that is served from the cache when it can be
reload_through_cache(m, dataset_name, outcome) ==
    [load_snapshots(m, dataset_name, outcome) EXCEPT !.log.op = "reload_snapshots"]

reload_snapshots(m, dataset_name, outcome) ==
    LET r == get_snapshots(m.zfs, dataset_name, outcome)
        m1 == [m EXCEPT !.log.op = "reload_snapshots", !.log.name = dataset_name,
                        !.log.cache_before = CacheKind(m.cache, dataset_name),
                        !.log.fetches = @ + 1]
    IN  IF r.ok
        THEN cache_snapshots([m1 EXCEPT !.state.snapshots = r.value], dataset_name)
        ELSE [m1 EXCEPT !.log.result = "Err"]

(***************************************************************************)
(* AppState (state.rs) and ThemeManager (theme.rs).                        *)
(***************************************************************************)
\* a reset_dataset_selection that resets the scroll offset only
dataset_selection_kept(st) == [st EXCEPT !.dataset_scroll_offset = 0]

reset_dataset_selection(st) ==
    [st EXCEPT !.selected_dataset_index = 0, !.dataset_scroll_offset = 0]

reset_snapshot_selection(st) ==
    [st EXCEPT !.selected_snapshot_index = 0, !.snapshot_scroll_offset = 0]

\* name.split('@').next_back(): the text of a snapshot name after its last '@'
ShortName(snapshot_name) ==
    CASE snapshot_name = "tank/home@daily-2024-01-15"   -> "daily-2024-01-15"
      [] snapshot_name = "tank/home@daily-2024-01-14"   -> "daily-2024-01-14"
      [] snapshot_name = "tank/home@weekly-2024-01-08"  -> "weekly-2024-01-08"
      [] snapshot_name = "tank/home@monthly-2024-01-01" -> "monthly-2024-01-01"
      [] snapshot_name = "backup/daily@2024-01-15"      -> "2024-01-15"
      [] OTHER -> snapshot_name

\* status_help_text is written here and nowhere else: the error message if
\* there is one, else the delete prompt naming the snapshot selected now,
\* else the key help
update_status_help_text(st) ==
    [st EXCEPT !.status_help_text =
        IF IsSome(st.error_message)
        THEN <<"ERROR: ", Unwrap(st.error_message), " (Press any key to continue)">>
        ELSE IF st.delete_confirmation_pending /\ st.current_view.kind = "SnapshotDetail"
             THEN IF HasIndex(st.snapshots, st.selected_snapshot_index)
                  THEN <<"DELETE ", ShortName(At(st.snapshots, st.selected_snapshot_index).name),
                         ": Press 'd' again to CONFIRM">>
                  ELSE <<"Press 'd' again to CONFIRM DELETION">>
             ELSE KeyHelpText]

\* the timestamp is kept as the whole seconds elapsed since Instant::now()
start_delete_confirmation(st) ==
    update_status_help_text(
        [st EXCEPT !.delete_confirmation_pending = TRUE,
                   !.delete_confirmation_timestamp = Some(0)])

clear_delete_confirmation(st) ==
    update_status_help_text(
        [st EXCEPT !.delete_confirmation_pending = FALSE,
                   !.delete_confirmation_timestamp = NoneOpt])

\* an expiry test that needs more than the timeout to have elapsed
expired_after_timeout_only(st) ==
    IF IsSome(st.delete_confirmation_timestamp)
    THEN Unwrap(st.delete_confirmation_timestamp) > DELETE_CONFIRMATION_TIMEOUT_SECS
    ELSE FALSE

is_delete_confirmation_expired(st) ==
    IF IsSome(st.delete_confirmation_timestamp)
    THEN Unwrap(st.delete_confirmation_timestamp) >= DELETE_CONFIRMATION_TIMEOUT_SECS
    ELSE FALSE

\* a set_error that drops the message
error_not_kept(st, message) == st

set_error(st, message) ==
    update_status_help_text([st EXCEPT !.error_message = Some(message)])

clear_error(st) == update_status_help_text([st EXCEPT !.error_message = NoneOpt])

previous_theme(st) ==
    IF st.selected_theme_index > 0
    THEN [st EXCEPT !.selected_theme_index = @ - 1] ELSE st

\* a next_theme that moves the selection of the snapshot list as well
next_theme_and_item(st) ==
    [st EXCEPT !.selected_theme_index = IF @ < 1 THEN @ + 1 ELSE @,
               !.selected_snapshot_index = @ + 1]

next_theme(st) ==
    IF st.selected_theme_index < 1
    THEN [st EXCEPT !.selected_theme_index = @ + 1] ELSE st

select_theme(st) ==
    [st EXCEPT !.current_theme = IF st.selected_theme_index = 0 THEN "Dark" ELSE "Light"]

set_selected_index_from_theme(st) ==
    [st EXCEPT !.selected_theme_index = IF st.current_theme = "Dark" THEN 0 ELSE 1]

\* an update_scroll that never scrolls down to the selection
scroll_up_only(total_items, selected, offset, visible_height) ==
    IF total_items <= visible_height THEN 0
    ELSE LET max_scroll == SatSub(total_items, visible_height)
             shown == IF selected < offset THEN selected ELSE offset
         IN  Min(shown, max_scroll)

\* the scroll offset of one list view after update_scroll
ScrollOffset(total_items, selected, offset, visible_height) ==
    IF total_items <= visible_height THEN 0
    ELSE LET max_scroll == SatSub(total_items, visible_height)
             shown == IF selected < offset THEN selected
                      ELSE IF selected >= offset + visible_height
                           THEN SatSub(selected + 1, visible_height)
                           ELSE offset
         IN  Min(shown, max_scroll)

\* a visible range whose end is not cut at the number of items
visible_range_uncut(st, total_items, visible_height) ==
    LET scroll_offset ==
            CASE st.current_view.kind = "DatasetView" -> st.dataset_scroll_offset
              [] st.current_view.kind = "SnapshotDetail" -> st.snapshot_scroll_offset
              [] OTHER -> 0
    IN  <<scroll_offset, scroll_offset + visible_height>>

\* (start, end): the items that a draw slices out of the collection
get_visible_range(st, total_items, visible_height) ==
    LET scroll_offset ==
            CASE st.current_view.kind = "DatasetView" -> st.dataset_scroll_offset
              [] st.current_view.kind = "SnapshotDetail" -> st.snapshot_scroll_offset
              [] OTHER -> 0
        start == scroll_offset
        end == Min(start + visible_height, total_items)
    IN  <<start, end>>

update_scroll(st, visible_height) ==
    CASE st.current_view.kind = "DatasetView" ->
           [st EXCEPT !.dataset_scroll_offset =
               ScrollOffset(Len(st.datasets), st.selected_dataset_index, @, visible_height)]
      [] st.current_view.kind = "SnapshotDetail" ->
           [st EXCEPT !.snapshot_scroll_offset =
               ScrollOffset(Len(st.snapshots), st.selected_snapshot_index, @, visible_height)]
      [] OTHER -> st

(***************************************************************************)
(* Navigator (navigation.rs).                                              *)
(***************************************************************************)
\* The keys told apart by handle_key_event.  "Esc" stands for Esc, Backspace
\* and Left, "Enter" for Enter and Right, "Other" for every other key.
KeyCodes == {"q", "Ctrl-c", "h", "s", "d", "Esc", "Enter",
             "Up", "Down", "PageUp", "PageDown", "Other"}

PreviousIndex(i, step) == SatSub(i, step)

\* a step down that does not stop at the last row
next_unclamped(i, step, len) == i + step

NextIndex(i, step, len) == Min(i + step, SatSub(len, 1))

\* previous_item and page_up (step 1 and PAGE_SIZE)
move_up(st, step) ==
    CASE st.current_view.kind = "PoolList" ->
           [st EXCEPT !.selected_pool_index = PreviousIndex(@, step)]
      [] st.current_view.kind = "DatasetView" ->
           [st EXCEPT !.selected_dataset_index = PreviousIndex(@, step)]
      [] st.current_view.kind = "SnapshotDetail" ->
           [st EXCEPT !.selected_snapshot_index = PreviousIndex(@, step)]
      [] OTHER -> st

\* next_item and page_down (step 1 and PAGE_SIZE)
move_down(st, step) ==
    CASE st.current_view.kind = "PoolList" ->
           [st EXCEPT !.selected_pool_index = NextIndex(@, step, Len(st.pools))]
      [] st.current_view.kind = "DatasetView" ->
           [st EXCEPT !.selected_dataset_index = NextIndex(@, step, Len(st.datasets))]
      [] st.current_view.kind = "SnapshotDetail" ->
           [st EXCEPT !.selected_snapshot_index = NextIndex(@, step, Len(st.snapshots))]
      [] OTHER -> st

previous_item(st) == move_up(st, 1)

next_item(st) == move_down(st, 1)

page_up(st) == move_up(st, PAGE_SIZE)

page_down(st) == move_down(st, PAGE_SIZE)

go_forward(m, outcome) ==
    LET st == m.state
    IN  CASE st.current_view.kind = "PoolList" ->
               IF HasIndex(st.pools, st.selected_pool_index)
               THEN LET pool_name == At(st.pools, st.selected_pool_index).name
                        m1 == [m EXCEPT !.state.current_view = DatasetView(pool_name),
                                        !.state.selected_dataset_index = 0]
                        m2 == load_datasets(m1, pool_name, outcome)
                    IN  IF m2.log.result = "Err" THEN m2
                        ELSE [m2 EXCEPT !.state = reset_dataset_selection(
                                 [@ EXCEPT !.datasets =
                                     sort_datasets(m2.state.dataset_sort_order, @)])]
               ELSE m
          [] st.current_view.kind = "DatasetView" ->
               IF HasIndex(st.datasets, st.selected_dataset_index)
               THEN LET dataset_name == At(st.datasets, st.selected_dataset_index).name
                        m1 == [m EXCEPT !.state.current_view =
                                            SnapshotDetail(st.current_view.pool, dataset_name),
                                        !.state.selected_snapshot_index = 0]
                        m2 == load_snapshots(m1, dataset_name, outcome)
                    IN  IF m2.log.result = "Err" THEN m2
                        ELSE [m2 EXCEPT !.state = reset_snapshot_selection(
                                 [@ EXCEPT !.snapshots =
                                     sort_snapshots(m2.state.snapshot_sort_order, @)])]
               ELSE m
          [] OTHER -> m

\* a go_back that leaves previous_view recorded on leaving Help
go_back_keeps_previous(st) ==
    CASE st.current_view.kind = "PoolList" -> st
      [] st.current_view.kind = "DatasetView" -> [st EXCEPT !.current_view = PoolList]
      [] st.current_view.kind = "SnapshotDetail" ->
           [st EXCEPT !.current_view = DatasetView(st.current_view.pool)]
      [] st.current_view.kind = "Help" ->
           [st EXCEPT !.current_view =
               IF IsSome(st.previous_view) THEN Unwrap(st.previous_view) ELSE PoolList]

go_back(st) ==
    CASE st.current_view.kind = "PoolList" -> st
      [] st.current_view.kind = "DatasetView" -> [st EXCEPT !.current_view = PoolList]
      [] st.current_view.kind = "SnapshotDetail" ->
           [st EXCEPT !.current_view = DatasetView(st.current_view.pool)]
      [] st.current_view.kind = "Help" ->
           IF IsSome(st.previous_view)
           THEN [st EXCEPT !.current_view = Unwrap(st.previous_view),
                           !.previous_view = NoneOpt]
           ELSE [st EXCEPT !.current_view = PoolList]

\* a show_help that does not record the view it was called in
show_help_forgets_previous(st) ==
    set_selected_index_from_theme([st EXCEPT !.current_view = Help])

show_help(st) ==
    set_selected_index_from_theme(
        [st EXCEPT !.previous_view = Some(st.current_view), !.current_view = Help])

\* a toggle_sort that leaves the selection and the scroll offset where they are
toggle_without_reset(st) ==
    CASE st.current_view.kind = "DatasetView" ->
           LET order == DatasetSortOrderNext(st.dataset_sort_order)
           IN  [st EXCEPT !.dataset_sort_order = order,
                          !.datasets = sort_datasets(order, @)]
      [] st.current_view.kind = "SnapshotDetail" ->
           LET order == SnapshotSortOrderNext(st.snapshot_sort_order)
           IN  [st EXCEPT !.snapshot_sort_order = order,
                          !.snapshots = sort_snapshots(order, @)]
      [] OTHER -> st

\* a toggle_sort that moves to the next sort order and leaves the list as it is
toggle_without_sort(st) ==
    CASE st.current_view.kind = "DatasetView" ->
           reset_dataset_selection(
               [st EXCEPT !.dataset_sort_order = DatasetSortOrderNext(@)])
      [] st.current_view.kind = "SnapshotDetail" ->
           reset_snapshot_selection(
               [st EXCEPT !.snapshot_sort_order = SnapshotSortOrderNext(@)])
      [] OTHER -> st

toggle_sort(st) ==
    CASE st.current_view.kind = "DatasetView" ->
           LET order == DatasetSortOrderNext(st.dataset_sort_order)
           IN  reset_dataset_selection(
                   [st EXCEPT !.dataset_sort_order = order,
                              !.datasets = sort_datasets(order, @)])
      [] st.current_view.kind = "SnapshotDetail" ->
           LET order == SnapshotSortOrderNext(st.snapshot_sort_order)
           IN  reset_snapshot_selection(
                   [st EXCEPT !.snapshot_sort_order = order,
                              !.snapshots = sort_snapshots(order, @)])
      [] OTHER -> st

\* the help text of the snapshot view: the error message if there is one,
\* else the delete prompt naming the selected snapshot, else the key help.
\* A text is the sequence of the pieces that format! joins.
get_delete_help_text(st) ==
    IF IsSome(st.error_message)
    THEN <<"ERROR: ", Unwrap(st.error_message), " (Press any key to continue)">>
    ELSE IF st.delete_confirmation_pending
         THEN IF HasIndex(st.snapshots, st.selected_snapshot_index)
              THEN <<"DELETE ", ShortName(At(st.snapshots, st.selected_snapshot_index).name),
                     ": Press 'd' again to CONFIRM or wait 3s to cancel">>
              ELSE <<"Press 'd' again to CONFIRM DELETION or wait 3 seconds to cancel">>
         ELSE KeyHelpText

\* a classification that looks for the busy marker first
DeleteErrorMessageBusyFirst(error) ==
    IF "dataset is busy" \in error
    THEN "Snapshot is currently in use and cannot be deleted."
    ELSE IF "dataset does not exist" \in error THEN "Snapshot no longer exists."
    ELSE IF "permission denied" \in error
         THEN "Permission denied. Try running with elevated privileges (sudo)."
         ELSE "Failed to delete snapshot: {e}"

\* the message handle_delete_key shows for a failed deletion
DeleteErrorMessage(error) ==
    IF "permission denied" \in error
    THEN "Permission denied. Try running with elevated privileges (sudo)."
    ELSE IF "dataset does not exist" \in error THEN "Snapshot no longer exists."
    ELSE IF "dataset is busy" \in error
         THEN "Snapshot is currently in use and cannot be deleted."
         ELSE "Failed to delete snapshot: {e}"

\* a selection left where it was
KeepSelection(selected, len) == selected

\* the selection after a deletion reloaded the list
ClampSelection(selected, len) == IF selected >= len THEN SatSub(len, 1) ELSE selected

\* a handle_delete_key without the return on an empty snapshot list
delete_key_on_any_list(m, del, outcome) ==
    IF m.state.current_view.kind # "SnapshotDetail" THEN m
    ELSE IF ~m.state.delete_confirmation_pending
         THEN [m EXCEPT !.state = start_delete_confirmation(@)]
         ELSE [m EXCEPT !.state = clear_delete_confirmation(@)]

handle_delete_key(m, del, outcome) ==
    LET st == m.state
    IN  IF st.current_view.kind # "SnapshotDetail" THEN m
        ELSE IF st.snapshots = <<>> THEN m
        ELSE IF ~st.delete_confirmation_pending
             THEN [m EXCEPT !.state = start_delete_confirmation(@)]
        ELSE IF ~HasIndex(st.snapshots, st.selected_snapshot_index)
             THEN [m EXCEPT !.state = clear_delete_confirmation(@)]
        ELSE LET snapshot == At(st.snapshots, st.selected_snapshot_index)
                 d == delete_snapshot(m.zfs, snapshot.name, del)
                 m1 == [m EXCEPT !.zfs = d.zfs, !.log.deletes = @ + 1]
             IN  IF d.ok
                 THEN LET m2 == reload_snapshots(m1, st.current_view.dataset, outcome)
                      IN  IF m2.log.result = "Err" THEN m2
                          ELSE [m2 EXCEPT !.state = clear_delete_confirmation(
                                   [@ EXCEPT !.snapshots =
                                                 sort_snapshots(m2.state.snapshot_sort_order, @),
                                             !.selected_snapshot_index =
                                                 ClampSelection(@, Len(m2.state.snapshots))])]
                 ELSE [m1 EXCEPT !.state = clear_delete_confirmation(
                                     set_error(@, DeleteErrorMessage(d.error)))]

handle_key_event(m, key, del, outcome) ==
    LET st == m.state
    IN  IF IsSome(st.error_message) THEN [m EXCEPT !.state = clear_error(@)]
        ELSE IF st.current_view.kind = "Help"
        THEN CASE key \in {"q", "Ctrl-c"} -> [m EXCEPT !.state.should_quit = TRUE]
               [] key = "Esc"   -> [m EXCEPT !.state = go_back(@)]
               [] key = "Up"    -> [m EXCEPT !.state = previous_theme(@)]
               [] key = "Down"  -> [m EXCEPT !.state = next_theme(@)]
               [] key = "Enter" -> [m EXCEPT !.state = select_theme(@)]
               [] OTHER -> m
        ELSE CASE key \in {"q", "Ctrl-c"} -> [m EXCEPT !.state.should_quit = TRUE]
               [] key = "h" -> [m EXCEPT !.state = show_help(@)]
               [] key = "s" -> [m EXCEPT !.state = toggle_sort(@)]
               [] key = "d" /\ ~st.readonly -> handle_delete_key(m, del, outcome)
               [] key = "Esc"   -> [m EXCEPT !.state = go_back(@)]
               [] key = "Enter" -> go_forward(m, outcome)
               [] key = "Up"    -> [m EXCEPT !.state = previous_item(@)]
               [] key = "Down"  -> [m EXCEPT !.state = next_item(@)]
               [] key = "PageUp"   -> [m EXCEPT !.state = page_up(@)]
               [] key = "PageDown" -> [m EXCEPT !.state = page_down(@)]
               [] OTHER -> m


(***************************************************************************)
(* App::run: load the pools, then loop: draw, poll for a key and handle    *)
(* it, drop an expired delete confirmation, leave on should_quit.  A step  *)
(* of the model is the rest of one iteration after its draw, followed by   *)
(* the draw of the next.                                                   *)
(***************************************************************************)
\* available_parallelism() of the machine
CpuCounts == {1}

\* --threads: not given, or 1..MaxThreads
ThreadOptions == {NoneOpt} \cup {Some(n) : n \in 1..MaxThreads}

InitialZfs == [d \in DatasetNames |-> {sn.name : sn \in Range(MockSnapshots(d))}]

\* main: the Config is parsed and validated, App::new builds the state
InitWith(readonlys, threadOptions) ==
    /\ zfs = InitialZfs
    /\ \E readonly \in readonlys : state = InitialState(readonly)
    /\ snapshot_cache = [k \in {} |-> <<>>]
    /\ prefetch_complete = FALSE
    /\ prefetch_total = 0
    /\ prefetch_completed = 0
    /\ \E threads \in threadOptions, cpu_count \in CpuCounts :
          /\ validate(threads)
          /\ thread_count = effective_thread_count(threads, cpu_count)
    /\ progress = [pc |-> "idle", total |-> 0, completed |-> 0]
    /\ run = "start"
    /\ pf_pc = "idle"
    /\ pf_pool = 0
    /\ all_datasets = <<>>
    /\ permits = 0
    /\ tasks = <<>>
    /\ last = NoCalls
    /\ loaded = [d \in DatasetNames |-> "no"]

Init == InitWith(BOOLEAN, ThreadOptions)

\* load_pools: the pools are fetched and the prefetch task is spawned
LoadPools(poolCounts) ==
    /\ run = "start"
    /\ \E pool_count \in poolCounts, outcome \in FetchOutcomes :
          LET r == get_pools(pool_count, outcome)
          IN  IF r.ok
              THEN /\ state' = [state EXCEPT !.pools = r.value]
                   /\ pf_pc' = "listing"
                   /\ run' = "loop"
              ELSE /\ run' = "failed"
                   /\ UNCHANGED <<state, pf_pc>>
    /\ UNCHANGED <<zfs, snapshot_cache, prefetch_complete, prefetch_total,
                   prefetch_completed, thread_count, progress, pf_pool, all_datasets,
                   permits, tasks, last, loaded>>

VisibleHeights == 0..MaxHeight

\* the once-per-tick check of the delete confirmation
expire_delete_confirmation(st) ==
    IF st.delete_confirmation_pending /\ is_delete_confirmation_expired(st)
    THEN clear_delete_confirmation(st) ELSE st

\* what the history keeps of the listing a handler loaded or reloaded
LoadedAfter(ld, m) ==
    IF m.log.op = "load_snapshots" /\ m.log.result = "Ok"
    THEN [ld EXCEPT ![m.log.name] = IF m.state.snapshots = <<>> THEN "empty" ELSE "nonempty"]
    ELSE IF m.log.op = "reload_snapshots" THEN [ld EXCEPT ![m.log.name] = "no"]
    ELSE ld

\* the rest of a loop iteration once the key handler has left m: a `?` ends
\* the program, should_quit leaves the loop, otherwise the next draw follows,
\* on a frame whose list area is one of `heights` rows high
FinishIteration(m, heights) ==
    LET seen == [m.log EXCEPT !.loaded_before =
                    IF m.log.op \in {"load_snapshots", "reload_snapshots"}
                    THEN loaded[m.log.name] ELSE ""]
    IN  /\ IF m.log.result = "Err"
           THEN /\ state' = m.state
                /\ run' = "failed"
                /\ last' = seen
           ELSE LET st == expire_delete_confirmation(m.state)
                    ticked == [seen EXCEPT !.expired = (st # m.state)]
                IN  IF st.should_quit
                    THEN /\ state' = st
                         /\ run' = "quit"
                         /\ last' = ticked
                    ELSE /\ \E visible_height \in heights :
                               /\ state' = update_scroll(st, visible_height)
                               /\ last' = [ticked EXCEPT !.height = Some(visible_height)]
                         /\ run' = "loop"
        /\ snapshot_cache' = m.cache
        /\ zfs' = m.zfs
        /\ loaded' = LoadedAfter(loaded, m)

NoDelete == [ok |-> TRUE, error |-> {}]

\* event::poll timed out: no key in this iteration
PollTimeout(heights) ==
    /\ run = "loop"
    /\ FinishIteration(Machine(state, snapshot_cache, zfs), heights)
    /\ UNCHANGED <<thread_count, progress, prefetchVars>>

\* a key of `keys`, none of which calls the Inventory Source
KeyPlain(keys, heights) ==
    /\ run = "loop"
    /\ \E key \in keys \ {"d", "Enter"} :
          FinishIteration(handle_key_event(Machine(state, snapshot_cache, zfs), key,
                                           NoDelete, "success"), heights)
    /\ UNCHANGED <<thread_count, progress, prefetchVars>>

\* Enter or Right: go_forward may list datasets or snapshots
KeyEnter(heights) ==
    /\ run = "loop"
    /\ \E outcome \in FetchOutcomes :
          FinishIteration(handle_key_event(Machine(state, snapshot_cache, zfs), "Enter",
                                           NoDelete, outcome), heights)
    /\ UNCHANGED <<thread_count, progress, prefetchVars>>

\* 'd': handle_delete_key may delete a snapshot and list the snapshots again
KeyDelete(dels, heights) ==
    /\ run = "loop"
    /\ \E del \in dels :
       \E outcome \in (IF del.ok THEN FetchOutcomes ELSE {"success"}) :
          FinishIteration(handle_key_event(Machine(state, snapshot_cache, zfs), "d",
                                           del, outcome), heights)
    /\ UNCHANGED <<thread_count, progress, prefetchVars>>

\* a second passes on the clock the delete confirmation was armed on
TimePasses ==
    /\ run = "loop"
    /\ IsSome(state.delete_confirmation_timestamp)
    /\ Unwrap(state.delete_confirmation_timestamp) < DELETE_CONFIRMATION_TIMEOUT_SECS
    /\ state' = [state EXCEPT !.delete_confirmation_timestamp = Some(Unwrap(@) + 1)]
    /\ UNCHANGED <<zfs, snapshot_cache, thread_count, progress, run, prefetchVars, last, loaded>>

(***************************************************************************)
(* The prefetch engine (start_background_prefetch).  It runs as long as    *)
(* the process does.                                                       *)
(***************************************************************************)
Alive == run = "loop"

\* a `for pool in &pools` that stops at the first listing that fails
PrefetchListPoolOrStop ==
    /\ Alive
    /\ pf_pc = "listing"
    /\ pf_pool < Len(state.pools)
    /\ \E outcome \in FetchOutcomes :
          LET r == get_datasets(At(state.pools, pf_pool).name, outcome)
          IN  /\ all_datasets' = IF r.ok THEN all_datasets \o r.value ELSE all_datasets
              /\ pf_pool' = IF r.ok THEN pf_pool + 1 ELSE Len(state.pools)
    /\ UNCHANGED <<zfs, state, snapshot_cache, prefetch_complete, prefetch_total,
                   prefetch_completed, thread_count, progress, run, pf_pc, permits, tasks,
                   last, loaded>>

\* one turn of `for pool in &pools`: a failed listing is skipped
PrefetchListPool ==
    /\ Alive
    /\ pf_pc = "listing"
    /\ pf_pool < Len(state.pools)
    /\ \E outcome \in FetchOutcomes :
          LET r == get_datasets(At(state.pools, pf_pool).name, outcome)
          IN  all_datasets' = IF r.ok THEN all_datasets \o r.value ELSE all_datasets
    /\ pf_pool' = pf_pool + 1
    /\ UNCHANGED <<zfs, state, snapshot_cache, prefetch_complete, prefetch_total,
                   prefetch_completed, thread_count, progress, run, pf_pc, permits, tasks,
                   last, loaded>>

\* prefetch_total.store(all_datasets.len())
PrefetchStoreTotal ==
    /\ Alive
    /\ pf_pc = "listing"
    /\ pf_pool = Len(state.pools)
    /\ prefetch_total' = Len(all_datasets)
    /\ pf_pc' = "reset"
    /\ UNCHANGED <<zfs, state, snapshot_cache, prefetch_complete, prefetch_completed,
                   thread_count, progress, run, pf_pool, all_datasets, permits, tasks,
                   last, loaded>>

\* the task spawned for one dataset, about to acquire a permit
NewTask(dataset) == [dataset |-> dataset.name, pc |-> "acquire", result |-> NoneOpt]

\* prefetch_completed.store(0), the semaphore, and one task spawned per dataset
PrefetchSpawnTasks ==
    /\ Alive
    /\ pf_pc = "reset"
    /\ prefetch_completed' = 0
    /\ permits' = thread_count
    /\ tasks' = [i \in 1..Len(all_datasets) |-> NewTask(all_datasets[i])]
    /\ pf_pc' = "join"
    /\ UNCHANGED <<zfs, state, snapshot_cache, prefetch_complete, prefetch_total,
                   thread_count, progress, run, pf_pool, all_datasets, last, loaded>>

\* a semaphore that hands out permits it does not have
CanAlwaysAcquire(available) == TRUE

\* sem.acquire(): is there a permit
CanAcquire(available) == available > 0

TaskAcquire(i) ==
    /\ Alive
    /\ tasks[i].pc = "acquire"
    /\ CanAcquire(permits)
    /\ permits' = permits - 1
    /\ tasks' = [tasks EXCEPT ![i].pc = "fetch"]
    /\ UNCHANGED <<zfs, state, snapshot_cache, prefetch_complete, prefetch_total,
                   prefetch_completed, thread_count, progress, run, pf_pc, pf_pool,
                   all_datasets, last, loaded>>

\* a task that leaves without counting itself when its fetch failed
AfterFetchUncounted(ok) == IF ok THEN "insert" ELSE "exit"

\* where a task goes once get_snapshots has returned: to the cache insert on
\* Ok, straight to the counter on Err
AfterFetch(ok) == IF ok THEN "insert" ELSE "count"

\* a task that caches an empty list when its fetch failed
TaskFetchCachingFailure(i) ==
    /\ Alive
    /\ tasks[i].pc = "fetch"
    /\ \E outcome \in FetchOutcomes :
          LET r == get_snapshots(zfs, tasks[i].dataset, outcome)
          IN  tasks' = [tasks EXCEPT ![i].pc = "insert",
                                     ![i].result = Some(IF r.ok THEN r.value ELSE <<>>)]
    /\ UNCHANGED <<zfs, state, snapshot_cache, prefetch_complete, prefetch_total,
                   prefetch_completed, thread_count, progress, run, pf_pc, pf_pool,
                   all_datasets, permits, last, loaded>>

\* get_snapshots(&dataset.name) returns in the task
TaskFetch(i) ==
    /\ Alive
    /\ tasks[i].pc = "fetch"
    /\ \E outcome \in FetchOutcomes :
          LET r == get_snapshots(zfs, tasks[i].dataset, outcome)
          IN  tasks' = [tasks EXCEPT ![i].pc = AfterFetch(r.ok),
                                     ![i].result = IF r.ok THEN Some(r.value) ELSE NoneOpt]
    /\ UNCHANGED <<zfs, state, snapshot_cache, prefetch_complete, prefetch_total,
                   prefetch_completed, thread_count, progress, run, pf_pc, pf_pool,
                   all_datasets, permits, last, loaded>>

\* a cache insert that also replaces the snapshots on display
TaskInsertIntoView(i) ==
    /\ Alive
    /\ tasks[i].pc = "insert"
    /\ snapshot_cache' = CacheInsert(snapshot_cache, tasks[i].dataset, Unwrap(tasks[i].result))
    /\ state' = [state EXCEPT !.snapshots = Unwrap(tasks[i].result)]
    /\ tasks' = [tasks EXCEPT ![i].pc = "count", ![i].result = NoneOpt]
    /\ loaded' = [loaded EXCEPT ![tasks[i].dataset] = "no"]
    /\ UNCHANGED <<zfs, prefetch_complete, prefetch_total, prefetch_completed,
                   thread_count, progress, run, pf_pc, pf_pool, all_datasets, permits, last>>

\* Ok(snapshots): cache_lock.insert(dataset.name, snapshots)
TaskInsert(i) ==
    /\ Alive
    /\ tasks[i].pc = "insert"
    /\ snapshot_cache' = CacheInsert(snapshot_cache, tasks[i].dataset, Unwrap(tasks[i].result))
    /\ tasks' = [tasks EXCEPT ![i].pc = "count", ![i].result = NoneOpt]
    /\ loaded' = [loaded EXCEPT ![tasks[i].dataset] = "no"]
    /\ UNCHANGED <<zfs, state, prefetch_complete, prefetch_total, prefetch_completed,
                   thread_count, progress, run, pf_pc, pf_pool, all_datasets, permits, last>>

\* completed.fetch_add(1)
TaskCount(i) ==
    /\ Alive
    /\ tasks[i].pc = "count"
    /\ prefetch_completed' = prefetch_completed + 1
    /\ tasks' = [tasks EXCEPT ![i].pc = "exit"]
    /\ UNCHANGED <<zfs, state, snapshot_cache, prefetch_complete, prefetch_total,
                   thread_count, progress, run, pf_pc, pf_pool, all_datasets, permits,
                   last, loaded>>

\* a permit that is never given back
KeepPermit(available) == available

\* _permit goes out of scope: the semaphore has one more permit
DropPermit(available) == available + 1

\* the task returns: its permit is dropped
TaskExit(i) ==
    /\ Alive
    /\ tasks[i].pc = "exit"
    /\ permits' = DropPermit(permits)
    /\ tasks' = [tasks EXCEPT ![i].pc = "done"]
    /\ UNCHANGED <<zfs, state, snapshot_cache, prefetch_complete, prefetch_total,
                   prefetch_completed, thread_count, progress, run, pf_pc, pf_pool,
                   all_datasets, last, loaded>>

\* a join that returns with the first task
AnyJoined(ts) == \E i \in 1..Len(ts) : ts[i].pc = "done"

\* join_all(tasks) has every task's result
AllJoined(ts) == \A i \in 1..Len(ts) : ts[i].pc = "done"

\* join_all returns: prefetch_complete.store(true)
PrefetchComplete ==
    /\ Alive
    /\ pf_pc = "join"
    /\ AllJoined(tasks)
    /\ prefetch_complete' = TRUE
    /\ pf_pc' = "done"
    /\ UNCHANGED <<zfs, state, snapshot_cache, prefetch_total, prefetch_completed,
                   thread_count, progress, run, pf_pool, all_datasets, permits, tasks,
                   last, loaded>>

\* a step of one of the spawned tasks
TaskStep ==
    \/ \E i \in 1..Len(tasks) : TaskAcquire(i)
    \/ \E i \in 1..Len(tasks) : TaskFetch(i)
    \/ \E i \in 1..Len(tasks) : TaskInsert(i)
    \/ \E i \in 1..Len(tasks) : TaskCount(i)
    \/ \E i \in 1..Len(tasks) : TaskExit(i)

PrefetchStep ==
    \/ PrefetchListPool
    \/ PrefetchStoreTotal
    \/ PrefetchSpawnTasks
    \/ TaskStep
    \/ PrefetchComplete

(***************************************************************************)
(* The status bar of a draw, while is_prefetch_complete() is false:        *)
(* get_prefetch_progress loads the total, then the completed count.  The   *)
(* prefetch runs on other threads of the runtime and may take steps        *)
(* between the two loads.                                                  *)
(***************************************************************************)
\* let total = self.prefetch_total.load(Relaxed)
ProgressLoadTotal ==
    /\ Alive
    /\ ~prefetch_complete
    /\ progress.pc # "total"
    /\ progress' = [pc |-> "total", total |-> prefetch_total, completed |-> 0]
    /\ UNCHANGED <<zfs, state, snapshot_cache, prefetchVars, thread_count, run,
                   last, loaded>>

\* let completed = self.prefetch_completed.load(Relaxed); (completed, total)
ProgressLoadCompleted ==
    /\ Alive
    /\ progress.pc = "total"
    /\ progress' = [progress EXCEPT !.pc = "returned", !.completed = prefetch_completed]
    /\ UNCHANGED <<zfs, state, snapshot_cache, prefetchVars, thread_count, run,
                   last, loaded>>

GetPrefetchProgress == ProgressLoadTotal \/ ProgressLoadCompleted

(***************************************************************************)
(* The program: the loop, the clock and the prefetch engine.               *)
(***************************************************************************)
Next ==
    \/ LoadPools(1..MaxPools)
    \/ PollTimeout(VisibleHeights)
    \/ KeyPlain(KeyCodes, VisibleHeights)
    \/ KeyEnter(VisibleHeights)
    \/ KeyDelete(DeleteOutcomes, VisibleHeights)
    \/ TimePasses
    \/ PrefetchStep
    \/ GetPrefetchProgress

Spec == Init /\ [][Next]_vars

(***************************************************************************)
(* Scenarios: the same actions with fewer inputs.                          *)
(***************************************************************************)
\* a frame high enough to show every list whole
FullHeight == {MaxHeight}

\* a deletion succeeds, or it fails on a busy snapshot
TwoDeleteOutcomes == {NoDelete, [ok |-> FALSE, error |-> {"dataset is busy"}]}

\* The user presses nothing.  Every prefetch step that can be taken is
\* taken in the end: the runtime schedules every task, and every call of the
\* tool returns.
IdleNext == LoadPools(1..MaxPools) \/ PollTimeout(FullHeight) \/ PrefetchStep

PrefetchSpec ==
    InitWith({FALSE}, ThreadOptions) /\ [][IdleNext]_vars /\ WF_vars(PrefetchStep)

\* The user presses nothing, and every draw shows the progress of the
\* prefetch in its status bar.
ProgressNext ==
    \/ LoadPools(1..MaxPools)
    \/ PollTimeout(FullHeight)
    \/ PrefetchStep
    \/ GetPrefetchProgress

ProgressSpec == InitWith({FALSE}, ThreadOptions) /\ [][ProgressNext]_vars

\* The user walks the tree and deletes snapshots while the prefetch runs on
\* one permit.
DataNext ==
    \/ LoadPools({1})
    \/ PollTimeout(FullHeight)
    \/ KeyPlain({"Esc", "Down"}, FullHeight)
    \/ KeyEnter(FullHeight)
    \/ KeyDelete({NoDelete}, FullHeight)
    \/ PrefetchStep

DataSpec == InitWith({FALSE}, {Some(1)}) /\ [][DataNext]_vars

\* Every key but 'h', on a clock that stands still, before the prefetch
\* has taken a step.
NavNext ==
    \/ LoadPools({1})
    \/ PollTimeout(FullHeight)
    \/ KeyPlain(KeyCodes \ {"h"}, FullHeight)
    \/ KeyEnter(FullHeight)
    \/ KeyDelete(TwoDeleteOutcomes, FullHeight)

NavSpec == InitWith({FALSE}, {NoneOpt}) /\ [][NavNext]_vars

\* Every key but 's', and the clock, before the prefetch has taken a step.
UiNext ==
    \/ LoadPools({1})
    \/ PollTimeout(FullHeight)
    \/ KeyPlain(KeyCodes \ {"s"}, FullHeight)
    \/ KeyEnter(FullHeight)
    \/ KeyDelete(DeleteOutcomes, FullHeight)
    \/ TimePasses

UiSpec == InitWith(BOOLEAN, {NoneOpt}) /\ [][UiNext]_vars

(***************************************************************************)
(* Properties of the Data Manager (under DataSpec).                        *)
(***************************************************************************)
\* moving through the lists on frames of every height, deletions included
ScrollNext ==
    \/ LoadPools({1})
    \/ PollTimeout(VisibleHeights)
    \/ KeyPlain({"Up", "Down", "PageUp", "PageDown", "Esc"}, VisibleHeights)
    \/ KeyEnter(VisibleHeights)
    \/ KeyDelete({NoDelete}, VisibleHeights)

ScrollSpec == InitWith({FALSE}, {NoneOpt}) /\ [][ScrollNext]_vars

\* browsing: every key but 'd', on a frame of full height, the Inventory
\* Source left alone
BrowseNext ==
    \/ LoadPools({1})
    \/ PollTimeout(FullHeight)
    \/ KeyPlain(KeyCodes, FullHeight)
    \/ KeyEnter(FullHeight)

BrowseSpec == InitWith({FALSE}, {NoneOpt}) /\ [][BrowseNext]_vars

(***************************************************************************)
(* Parsing of the tool's output (zfs.rs).  The output is a sequence of      *)
(* lines, a line the sequence of its tab-separated fields, a field a       *)
(* string.  The scenario ParseSpec calls the Data Manager with the tool    *)
(* printing any of a set of outputs.                                       *)
(***************************************************************************)
\* str::parse::<u64>().unwrap_or(0), on the numerals the model prints
parse_or_zero(field) ==
    CASE field = "7" -> 7
      [] field = "1024" -> 1024
      [] OTHER -> 0

\* line.trim().is_empty(): nothing but whitespace, the tabs included
IsBlankLine(line) == \A i \in 1..Len(line) : line[i] \in {"", " "}

\* the loop of get_pools: fields[9] of a line with 7, 8 or 9 fields is an
\* index out of bounds, which panics
parse_pools(stdout) ==
    LET kept == SelectSeq(stdout, LAMBDA line : ~IsBlankLine(line) /\ Len(line) >= 7)
    IN  IF \E i \in 1..Len(kept) : Len(kept[i]) < 10
        THEN [ok |-> FALSE, value |-> <<>>, panicked |-> TRUE]
        ELSE Ok([i \in 1..Len(kept) |->
                    [name |-> kept[i][1],
                     size |-> parse_or_zero(kept[i][2]),
                     allocated |-> parse_or_zero(kept[i][3]),
                     free |-> parse_or_zero(kept[i][4]),
                     health |-> kept[i][10]]])

\* the loop of get_datasets
parse_datasets(stdout) ==
    LET kept == SelectSeq(stdout, LAMBDA line : ~IsBlankLine(line) /\ Len(line) >= 5)
    IN  Ok([i \in 1..Len(kept) |->
               [name |-> kept[i][1],
                used |-> parse_or_zero(kept[i][2]),
                available |-> parse_or_zero(kept[i][3]),
                referenced |-> parse_or_zero(kept[i][4]),
                snapshot_used |-> parse_or_zero(kept[i][5])]])

\* the loop of get_snapshots
parse_snapshots(stdout) ==
    LET kept == SelectSeq(stdout, LAMBDA line : ~IsBlankLine(line) /\ Len(line) >= 4)
    IN  Ok([i \in 1..Len(kept) |->
               [name |-> kept[i][1],
                used |-> parse_or_zero(kept[i][2]),
                referenced |-> parse_or_zero(kept[i][3]),
                creation |-> kept[i][4]]])

\* Outputs of up to two lines.  A line is the well-formed line of the
\* listing cut after any of its fields, or with a size that is no number,
\* or blank.
ToolOutputs(listing) ==
    LET good == CASE listing = "pools" ->
                       <<"tank", "1024", "7", "7", "-", "-", "0", "0", "1.00", "ONLINE", "-">>
                  [] listing = "datasets" -> <<"tank/home", "1024", "7", "7", "7">>
                  [] listing = "snapshots" -> <<"tank/home@daily", "7", "1024", "1705276800">>
        lines == {SubSeq(good, 1, n) : n \in 1..Len(good)}
                 \cup {[good EXCEPT ![2] = "x"]}
                 \cup {<<"">>, <<" ", "", "", "", "">>}
    IN  {<<>>} \cup {<<a>> : a \in lines} \cup {<<a, b>> : a \in lines, b \in lines}

\* load_pools, the tool printing one of the outputs
ListPools ==
    /\ run = "start"
    /\ \E stdout \in ToolOutputs("pools") :
          LET r == parse_pools(stdout)
          IN  IF r.ok
              THEN /\ state' = [state EXCEPT !.pools = r.value]
                   /\ pf_pc' = "listing"
                   /\ run' = "loop"
              ELSE /\ run' = "panicked"
                   /\ UNCHANGED <<state, pf_pc>>
    /\ UNCHANGED <<zfs, snapshot_cache, prefetch_complete, prefetch_total,
                   prefetch_completed, thread_count, progress, pf_pool, all_datasets,
                   permits, tasks, last, loaded>>

\* load_datasets, the tool printing one of the outputs
ListDatasets ==
    /\ run = "loop"
    /\ \E stdout \in ToolOutputs("datasets") :
          state' = [state EXCEPT !.datasets = parse_datasets(stdout).value]
    /\ UNCHANGED <<zfs, snapshot_cache, thread_count, progress, run, prefetchVars, last, loaded>>

\* reload_snapshots of tank/home, the tool printing one of the outputs
ListSnapshots ==
    /\ run = "loop"
    /\ \E stdout \in ToolOutputs("snapshots") :
          /\ state' = [state EXCEPT !.snapshots = parse_snapshots(stdout).value]
          /\ snapshot_cache' = CacheInsert(snapshot_cache, "tank/home", state'.snapshots)
    /\ UNCHANGED <<zfs, thread_count, progress, run, prefetchVars, last, loaded>>

ParseNext == ListPools \/ ListDatasets \/ ListSnapshots

ParseSpec == InitWith({FALSE}, {NoneOpt}) /\ [][ParseNext]_vars

\* the last iteration called load_snapshots
Loaded == last.op = "load_snapshots"

\* the last iteration called reload_snapshots
Reloaded == last.op = "reload_snapshots"

\* the list is one that get_snapshots can return for the name now
IsFreshListing(name, snaps) ==
    \E outcome \in FetchOutcomes :
        LET r == get_snapshots(zfs, name, outcome) IN r.ok /\ r.value = snaps

\* C1 as the spec states it: load_snapshots on a dataset without a cache
\* entry makes exactly one fetch and, the fetch succeeding, exactly one
\* cache write; and a load of a dataset that was loaded before, with no
\* reload since, makes no fetch.
C1_LoadFetchesOnceThenHits ==
    /\ (Loaded /\ last.cache_before = "absent") =>
           (last.fetches = 1 /\ (last.result = "Ok" => last.cache_writes = 1))
    /\ (Loaded /\ last.loaded_before # "no") => last.fetches = 0

\* C1, amended: load_snapshots on a dataset without a cache entry makes
\* exactly one fetch, and one cache write if the fetch succeeds and none if
\* it fails; a load of a dataset whose last load returned a non-empty list,
\* with no reload and no prefetch write of that entry since, makes no fetch.
C1_LoadFetchesOnceThenHitsNonEmpty ==
    /\ (Loaded /\ last.cache_before = "absent") =>
           /\ last.fetches = 1
           /\ last.cache_writes = IF last.result = "Ok" THEN 1 ELSE 0
    /\ (Loaded /\ last.loaded_before = "nonempty") => last.fetches = 0

\* a load served from an entry that an earlier load wrote: no prefetch task
\* has been spawned yet
C1_SecondLoadServedFromCache ==
    /\ Loaded
    /\ last.loaded_before = "nonempty"
    /\ last.cache_before = "nonempty"
    /\ last.fetches = 0
    /\ tasks = <<>>

\* C2: reload_snapshots always makes one fetch, whatever the cache holds,
\* and when the fetch succeeds the cache entry of the dataset is the list
\* just fetched.  (A reload follows a deletion, the only step that changes
\* the Inventory Source.)
C2_ReloadAlwaysFetchesAndOverwrites ==
    [][(zfs' # zfs /\ last'.op = "reload_snapshots") =>
          /\ last'.fetches = 1
          /\ last'.result = "Ok" =>
                /\ last'.cache_writes = 1
                /\ last'.name \in DOMAIN snapshot_cache'
                /\ snapshot_cache'[last'.name] = Unwrap(last'.written)
                /\ \E outcome \in FetchOutcomes :
                      LET r == get_snapshots(zfs', last'.name, outcome)
                      IN  r.ok /\ r.value = snapshot_cache'[last'.name]]_vars

\* a reload replaced a non-empty cache entry by the empty list it fetched
C2_ReloadOverwroteEntry ==
    /\ Reloaded
    /\ last.result = "Ok"
    /\ last.cache_before = "nonempty"
    /\ last.fetches = 1
    /\ last.written = Some(<<>>)
    /\ snapshot_cache[last.name] = <<>>

\* C3: load_snapshots on a cache entry that holds the empty list does what
\* it does on a missing entry: it makes one fetch, and when the fetch
\* succeeds it writes the fetched list to the cache.
C3_EmptyEntryIsAMiss ==
    (Loaded /\ last.cache_before \in {"absent", "empty"}) =>
        /\ last.fetches = 1
        /\ last.result = "Ok" =>
              /\ last.cache_writes = 1
              /\ IsSome(last.written)
              /\ IsFreshListing(last.name, Unwrap(last.written))

\* a load found an empty entry, fetched a non-empty list and wrote it
C3_EmptyEntryRefetched ==
    /\ Loaded
    /\ last.cache_before = "empty"
    /\ last.fetches = 1
    /\ last.cache_writes = 1
    /\ IsSome(last.written)
    /\ Unwrap(last.written) # <<>>

(***************************************************************************)
(* Properties of the prefetch engine (under PrefetchSpec).                 *)
(***************************************************************************)
\* the task has counted itself
Resolved(t) == t.pc \in {"exit", "done"}

\* the task holds a permit
HoldsPermit(t) == t.pc \in {"fetch", "insert", "count", "exit"}

Spawned == pf_pc \in {"join", "done"}

\* C4: the completed counter never exceeds the total counter, and it equals
\* the total once every spawned task has resolved, whether its fetch
\* succeeded or failed.
C4_CompletedReachesTotal ==
    /\ prefetch_completed <= prefetch_total
    /\ (Spawned /\ \A i \in 1..Len(tasks) : Resolved(tasks[i])) =>
           prefetch_completed = prefetch_total

\* two tasks resolved, every fetch failed: nothing was cached
C4_AllFetchesFailed ==
    /\ Spawned
    /\ Len(tasks) = 2
    /\ \A i \in 1..Len(tasks) : Resolved(tasks[i])
    /\ DOMAIN snapshot_cache = {}
    /\ prefetch_completed = 2

\* C5: the tasks that hold a permit, and so the tasks that are fetching,
\* are never more than thread_count.
C5_AtMostThreadCountFetch ==
    Cardinality({i \in 1..Len(tasks) : HoldsPermit(tasks[i])}) <= thread_count

\* one task fetches on the only permit while another waits for it
C5_TaskWaitsForPermit ==
    /\ thread_count = 1
    /\ permits = 0
    /\ \E i, j \in 1..Len(tasks) : tasks[i].pc = "fetch" /\ tasks[j].pc = "acquire"

\* C6: when the complete flag is true, completed equals total and every
\* spawned task has finished; and no task writes the cache in a step taken
\* with the flag true.
C6_CompleteAfterEveryTask ==
    /\ [](prefetch_complete =>
            /\ prefetch_completed = prefetch_total
            /\ \A i \in 1..Len(tasks) : tasks[i].pc = "done")
    /\ [][prefetch_complete => ~(\E i \in 1..Len(tasks) : TaskInsert(i))]_vars

\* the flag is true after two tasks, one of which cached its list
C6_CompleteWithCachedList ==
    /\ prefetch_complete
    /\ prefetch_total = 2
    /\ DOMAIN snapshot_cache # {}

\* C7: under fair scheduling, once the prefetch task is spawned the complete
\* flag is set in the end, whichever pool listings and snapshot fetches fail.
C7_PrefetchCompletes == (pf_pc = "listing") ~> prefetch_complete

\* the flag is true although every pool listing failed
C7_CompleteWithNoDataset ==
    /\ prefetch_complete
    /\ prefetch_total = 0
    /\ tasks = <<>>

(***************************************************************************)
(* Properties of the Navigator.                                            *)
(***************************************************************************)
\* the selected index and the collection of the view shown
SelectedIndex(st) ==
    CASE st.current_view.kind = "PoolList" -> st.selected_pool_index
      [] st.current_view.kind = "DatasetView" -> st.selected_dataset_index
      [] st.current_view.kind = "SnapshotDetail" -> st.selected_snapshot_index
      [] OTHER -> 0

Backing(st) ==
    CASE st.current_view.kind = "PoolList" -> st.pools
      [] st.current_view.kind = "DatasetView" -> st.datasets
      [] st.current_view.kind = "SnapshotDetail" -> st.snapshots
      [] OTHER -> <<>>

\* an index that selects an element, or index 0 of an empty collection
Within(selected, seq) == selected < Len(seq) \/ (seq = <<>> /\ selected = 0)

\* C8 as the spec states it (under NavSpec): in the loop, the selected index
\* of the list view shown is strictly less than the length of its collection.
C8_SelectionBelowLength ==
    (run = "loop" /\ state.current_view.kind # "Help") =>
        SelectedIndex(state) < Len(Backing(state))

\* C8, amended (under NavSpec): each of the three selected indexes is less
\* than the length of its collection when the collection is not empty, and
\* is 0 when it is empty.
C8_SelectionWithinCollection ==
    /\ Within(state.selected_pool_index, state.pools)
    /\ Within(state.selected_dataset_index, state.datasets)
    /\ Within(state.selected_snapshot_index, state.snapshots)

\* the last of two snapshots was deleted under another sort order: one
\* snapshot is left and it is the one selected
C8_SelectionClampedAfterDelete ==
    /\ state.current_view.kind = "SnapshotDetail"
    /\ last.deletes = 1
    /\ Reloaded
    /\ last.result = "Ok"
    /\ Len(state.snapshots) = 1
    /\ state.selected_snapshot_index = 0
    /\ state.snapshot_sort_order # "UsedDesc"
    /\ zfs # InitialZfs

\* the delete confirmation is armed and its timeout has not elapsed
Armed(st) == st.delete_confirmation_pending /\ ~is_delete_confirmation_expired(st)

Cleared(st) ==
    ~st.delete_confirmation_pending /\ st.delete_confirmation_timestamp = NoneOpt

\* C9 (under UiSpec): in SnapshotDetail with snapshots, not read-only and
\* no error shown, a 'd' pressed when no confirmation is pending arms it and
\* deletes nothing; a 'd' pressed while it is armed makes exactly one
\* deletion call and leaves the pending state cleared.
C9_SecondDeleteKeyDeletesOnceAndClears ==
    [][(/\ KeyDelete(DeleteOutcomes, FullHeight)
        /\ state.current_view.kind = "SnapshotDetail"
        /\ state.snapshots # <<>>
        /\ ~state.readonly
        /\ ~IsSome(state.error_message)) =>
          /\ ~state.delete_confirmation_pending =>
                (state'.delete_confirmation_pending /\ last'.deletes = 0)
          /\ Armed(state) => (last'.deletes = 1 /\ Cleared(state'))]_vars

\* C10 (under UiSpec): a key other than 'd' pressed while the confirmation
\* is armed, after which the loop goes on, clears the pending state and
\* deletes nothing.
C10_OtherKeyDisarms ==
    [][(/\ KeyPlain(KeyCodes \ {"s"}, FullHeight) \/ KeyEnter(FullHeight)
        /\ Armed(state)
        /\ run' = "loop") =>
          (Cleared(state') /\ last'.deletes = 0)]_vars

(***************************************************************************)
(* Properties of the delete confirmation (under UiSpec).                   *)
(***************************************************************************)
\* the confirmation is pending and the timeout has elapsed on its clock
TimedOut(st) ==
    /\ st.delete_confirmation_pending
    /\ IsSome(st.delete_confirmation_timestamp)
    /\ Unwrap(st.delete_confirmation_timestamp) >= DELETE_CONFIRMATION_TIMEOUT_SECS

\* 'd' can arm or delete: SnapshotDetail with snapshots, not read-only
DeleteAllowed(st) ==
    /\ st.current_view.kind = "SnapshotDetail"
    /\ ~st.readonly
    /\ st.snapshots # <<>>

C12_PendingOnlyInArmingView ==
    /\ [](state.delete_confirmation_pending =>
             state.current_view.kind = "SnapshotDetail")
    /\ [][(state.delete_confirmation_pending /\ state'.delete_confirmation_pending) =>
             state'.current_view = state.current_view]_vars

\* what a 'd' pressed now does, for each result the deletion and the
\* listing after it can have
AfterDeleteKey(del, outcome) ==
    handle_key_event(Machine(state, snapshot_cache, zfs), "d", del, outcome)

\* C13 (under UiSpec): a 'd' makes a deletion call, or arms the pending
\* confirmation, only in SnapshotDetail, with read-only mode off and a
\* snapshot list that is not empty; in every other situation the handler
\* leaves the state, the cache and the Inventory Source as they are.
C13_DeleteOnlyWhereAllowed ==
    run = "loop" =>
        \A del \in DeleteOutcomes, outcome \in FetchOutcomes :
            LET m2 == AfterDeleteKey(del, outcome)
                armed == m2.state.delete_confirmation_pending
                            /\ ~state.delete_confirmation_pending
            IN  /\ (m2.log.deletes > 0 \/ armed) => DeleteAllowed(state)
                /\ ~DeleteAllowed(state) =>
                      m2 = Machine(state, snapshot_cache, zfs)

\* read-only mode, SnapshotDetail with snapshots: 'd' does nothing
C13_DeleteKeyIgnoredReadonly ==
    /\ run = "loop"
    /\ state.readonly
    /\ state.current_view.kind = "SnapshotDetail"
    /\ state.snapshots # <<>>
    /\ \A del \in DeleteOutcomes :
          AfterDeleteKey(del, "success") = Machine(state, snapshot_cache, zfs)

(***************************************************************************)
(* Properties of the Navigator's handlers.                                 *)
(***************************************************************************)
\* no snapshot of the list comes before one that the sort order puts first
SnapshotsInOrder(order, snaps) ==
    \A i, j \in 1..Len(snaps) :
        i < j => SnapshotCompare(order, snaps[i], snaps[j]) # "Greater"

\* the two lists hold the same snapshots
SameSnapshots(a, b) == Len(a) = Len(b) /\ Range(a) = Range(b)

\* C14 (under NavSpec): a confirmed deletion that succeeded is followed, in
\* the same handler, by reload_snapshots of the dataset shown, which makes
\* one fetch whatever the cache holds; when the fetch succeeds the cache
\* entry is the list fetched and the list shown is that list in the current
\* sort order; and the selected index is min(previous index, length - 1),
\* 0 for an empty list.
C14_DeleteReloadsSortsClamps ==
    [][(/\ last'.deletes = 1
        /\ zfs' # zfs
        /\ KeyDelete(TwoDeleteOutcomes, FullHeight)) =>
          /\ last'.op = "reload_snapshots"
          /\ last'.name = state.current_view.dataset
          /\ last'.fetches = 1
          /\ last'.result = "Ok" =>
                /\ last'.cache_writes = 1
                /\ snapshot_cache'[last'.name] = Unwrap(last'.written)
                /\ \E outcome \in FetchOutcomes :
                      LET r == get_snapshots(zfs', last'.name, outcome)
                      IN  r.ok /\ r.value = Unwrap(last'.written)
                /\ SameSnapshots(state'.snapshots, Unwrap(last'.written))
          /\ SnapshotsInOrder(state'.snapshot_sort_order, state'.snapshots)
          /\ state'.snapshot_sort_order = state.snapshot_sort_order
          /\ state'.selected_snapshot_index =
                Min(state.selected_snapshot_index, SatSub(Len(state'.snapshots), 1))]_vars

\* the second of two snapshots was deleted under the order "used ascending"
\* and the cache entry was overwritten: the selection moved from 1 to 0
C14_DeletedLastOfTwo ==
    /\ Reloaded
    /\ last.deletes = 1
    /\ last.result = "Ok"
    /\ last.cache_before = "nonempty"
    /\ state.snapshot_sort_order = "UsedAsc"
    /\ Len(state.snapshots) = 1
    /\ state.snapshots[1].name = "tank/home@daily-2024-01-14"
    /\ state.selected_snapshot_index = 0
    /\ snapshot_cache[last.name] = state.snapshots

\* a key of any kind is handled in this step (under UiSpec)
AnyKey ==
    \/ KeyPlain(KeyCodes \ {"s"}, FullHeight)
    \/ KeyEnter(FullHeight)
    \/ KeyDelete(DeleteOutcomes, FullHeight)

\* C15 (under UiSpec): a deletion that fails leaves the loop running, with
\* an error message set, the pending state cleared and the snapshot list,
\* the cache, the view and the Inventory Source as they were; and a key of
\* any kind pressed while an error message is set clears the message and
\* does nothing else: no quit, no navigation, no fetch, no deletion.
C15_FailedDeleteShowsDismissibleError ==
    /\ [][(/\ last'.deletes = 1
           /\ last'.op # "reload_snapshots"
           /\ KeyDelete(DeleteOutcomes, FullHeight)) =>
             /\ run' = "loop"
             /\ last'.result = "Ok"
             /\ IsSome(state'.error_message)
             /\ Cleared(state')
             /\ state'.snapshots = state.snapshots
             /\ state'.current_view = state.current_view
             /\ state'.selected_snapshot_index = state.selected_snapshot_index
             /\ snapshot_cache' = snapshot_cache
             /\ zfs' = zfs]_vars
    /\ [][(IsSome(state.error_message) /\ AnyKey) =>
             /\ state' = update_status_help_text([state EXCEPT !.error_message = NoneOpt])
             /\ state'.status_help_text # state.status_help_text
             /\ run' = "loop"
             /\ last'.deletes = 0
             /\ last'.fetches = 0
             /\ snapshot_cache' = snapshot_cache
             /\ zfs' = zfs]_vars

\* a deletion failed for lack of permission: the message is shown over the
\* unchanged list
C15_DeleteFailedWithMessage ==
    /\ run = "loop"
    /\ last.deletes = 1
    /\ state.error_message =
          Some("Permission denied. Try running with elevated privileges (sudo).")
    /\ Cleared(state)
    /\ Len(state.snapshots) = 2
    /\ zfs = InitialZfs

(***************************************************************************)
(* Error signalling of the Data Manager (under DataSpec).                  *)
(***************************************************************************)
\* the three Data Manager calls that the Navigator makes, applied now
LoadDatasetsNow(pool_name, outcome) ==
    load_datasets(Machine(state, snapshot_cache, zfs), pool_name, outcome)

LoadSnapshotsNow(dataset_name, outcome) ==
    load_snapshots(Machine(state, snapshot_cache, zfs), dataset_name, outcome)

ReloadSnapshotsNow(dataset_name, outcome) ==
    reload_snapshots(Machine(state, snapshot_cache, zfs), dataset_name, outcome)

PoolNames == {p.name : p \in Range(MockPools)}

C17_LoopEndsOnlyOnQuit ==
    [][(run = "loop" /\ run' # "loop") =>
          (run' = "quit" /\ state'.should_quit /\ last'.result = "Ok")]_vars

(***************************************************************************)
(* Properties of sorting and of forward navigation (under BrowseSpec).     *)
(***************************************************************************)
RECURSIVE DatasetOrderAfter(_, _)
\* the dataset sort order after n toggles
DatasetOrderAfter(order, n) ==
    IF n = 0 THEN order ELSE DatasetSortOrderNext(DatasetOrderAfter(order, n - 1))

RECURSIVE SnapshotOrderAfter(_, _)
\* the snapshot sort order after n toggles
SnapshotOrderAfter(order, n) ==
    IF n = 0 THEN order ELSE SnapshotSortOrderNext(SnapshotOrderAfter(order, n - 1))

\* b follows a in the cyclic order of values
FollowsIn(values, a, b) ==
    \E i \in 1..Len(values) :
        values[i] = a /\ values[IF i = Len(values) THEN 1 ELSE i + 1] = b

\* no dataset of the list comes before one that the sort order puts first
DatasetsInOrder(order, ds) ==
    \A i, j \in 1..Len(ds) : i < j => DatasetCompare(order, ds[i], ds[j]) # "Greater"

SameDatasets(a, b) == Len(a) = Len(b) /\ Range(a) = Range(b)

\* C18: from the sort order the program is in, 8 toggles of the dataset
\* order and 6 of the snapshot order come back to it and fewer do not; a
\* step that changes a sort order moves it to the next of the fixed cyclic
\* order; and under "name ascending" the datasets are non-decreasing by name.
C18_SortOrdersCycle ==
    /\ [](/\ DatasetOrderAfter(state.dataset_sort_order, 8) = state.dataset_sort_order
          /\ \A n \in 1..7 :
                DatasetOrderAfter(state.dataset_sort_order, n) # state.dataset_sort_order
          /\ SnapshotOrderAfter(state.snapshot_sort_order, 6) = state.snapshot_sort_order
          /\ \A n \in 1..5 :
                SnapshotOrderAfter(state.snapshot_sort_order, n) # state.snapshot_sort_order
          /\ state.dataset_sort_order = "NameAsc" =>
                \A i, j \in 1..Len(state.datasets) :
                    i < j => NameRank(state.datasets[i].name)
                                <= NameRank(state.datasets[j].name))
    /\ [][/\ state'.dataset_sort_order # state.dataset_sort_order =>
                FollowsIn(DatasetSortValues, state.dataset_sort_order,
                          state'.dataset_sort_order)
          /\ state'.snapshot_sort_order # state.snapshot_sort_order =>
                FollowsIn(SnapshotSortValues, state.snapshot_sort_order,
                          state'.snapshot_sort_order)]_vars

\* seven toggles in, the two datasets of tank stand in name order
C18_DatasetsByNameAscending ==
    /\ state.current_view = DatasetView("tank")
    /\ state.dataset_sort_order = "NameAsc"
    /\ Len(state.datasets) = 2
    /\ state.datasets[1].name = "tank"
    /\ state.datasets[2].name = "tank/home"

(***************************************************************************)
(* Properties of the scroll window (under ScrollSpec).                     *)
(***************************************************************************)
\* the scroll offset of the list view shown
ShownOffset(st) ==
    CASE st.current_view.kind = "DatasetView" -> st.dataset_scroll_offset
      [] st.current_view.kind = "SnapshotDetail" -> st.snapshot_scroll_offset
      [] OTHER -> 0

\* a list view was drawn last, with a selection that selects an element
DrawnList ==
    /\ run = "loop"
    /\ IsSome(last.height)
    /\ state.current_view.kind \in {"DatasetView", "SnapshotDetail"}
    /\ SelectedIndex(state) < Len(Backing(state))

\* the selection is inside the window and the window does not pass the end
InWindow(selected, offset, len, visible_height) ==
    /\ offset <= selected
    /\ selected < offset + visible_height
    /\ offset <= Max(0, len - visible_height)

IsDatasetListing(pool_name, ds) ==
    \E outcome \in FetchOutcomes :
        LET r == get_datasets(pool_name, outcome) IN r.ok /\ SameDatasets(r.value, ds)

BackKey == KeyPlain({"Esc"}, FullHeight) /\ state.error_message = NoneOpt

\* 'h' is pressed outside Help while no error message is shown
HelpKey ==
    /\ KeyPlain({"h"}, FullHeight)
    /\ state.error_message = NoneOpt
    /\ state.current_view.kind # "Help"

\* C21 (under UiSpec): a back key takes DatasetView to PoolList and
\* SnapshotDetail(pool, dataset) to DatasetView(pool), and leaves PoolList
\* where it is; from Help it returns to the recorded previous view, or to
\* PoolList when none is recorded, and previous_view is None afterwards.
\* The recorded view is the one that was shown when 'h' was pressed: 'h'
\* records it, and it does not change while Help is shown.
C21_BackwardNavigation ==
    /\ [][BackKey =>
            LET st == state
                nx == state'
            IN  /\ st.current_view.kind = "PoolList" => nx.current_view = PoolList
                /\ st.current_view.kind = "DatasetView" => nx.current_view = PoolList
                /\ st.current_view.kind = "SnapshotDetail" =>
                      nx.current_view = DatasetView(st.current_view.pool)
                /\ st.current_view.kind = "Help" =>
                      /\ nx.current_view = IF IsSome(st.previous_view)
                                           THEN Unwrap(st.previous_view) ELSE PoolList
                      /\ nx.previous_view = NoneOpt]_vars
    /\ [][HelpKey => /\ state'.current_view = Help
                     /\ state'.previous_view = Some(state.current_view)]_vars
    /\ [][(state.current_view = Help /\ state'.current_view = Help) =>
              state'.previous_view = state.previous_view]_vars
    /\ [](LET unrecorded == go_back([state EXCEPT !.current_view = Help,
                                                  !.previous_view = NoneOpt])
          IN  unrecorded.current_view = PoolList /\ unrecorded.previous_view = NoneOpt)

\* Back keys have acted from Help and from SnapshotDetail: the theme is one
\* that can only be chosen in Help, which only a back key leaves, and the
\* snapshots are loaded, which happens on entering SnapshotDetail, which
\* only a back key leaves for DatasetView; nothing is recorded any more
C21_BackFromHelpAndFromSnapshotDetail ==
    /\ run = "loop"
    /\ state.current_view = DatasetView("tank")
    /\ state.previous_view = NoneOpt
    /\ state.current_theme = "Light"
    /\ state.snapshots # <<>>

LoadedOrSorted ==
    \/ last'.op # "" /\ last'.result = "Ok" /\ KeyEnter(FullHeight)
    \/ /\ state.error_message = NoneOpt
       /\ state.current_view.kind \in {"DatasetView", "SnapshotDetail"}
       /\ KeyPlain({"s"}, FullHeight)

\* a step that deleted a snapshot, reloaded the snapshots and sorted them
DeletedAndReloaded ==
    /\ last'.op = "reload_snapshots"
    /\ last'.result = "Ok"
    /\ KeyDelete(TwoDeleteOutcomes, FullHeight)

\* C23 as the spec states it (under NavSpec): after every step that loads,
\* reloads or re-sorts the collection backing the view, the reload and
\* re-sort after a successful deletion included, the selected index of the
\* view is 0.
C23_SelectionResetOnReloadOrSort ==
    [][(LoadedOrSorted \/ DeletedAndReloaded) => SelectedIndex(state') = 0]_vars

\* C23, amended: after a step that loads the collection of the view entered
\* or toggles the sort order of the view shown, the selected index of the
\* view is 0; after the reload and re-sort that follow a successful
\* deletion the selected index is the one before, or the last row when the
\* list has become too short for it.
C23_SelectionResetOrClamped ==
    /\ [][LoadedOrSorted => SelectedIndex(state') = 0]_vars
    /\ [][DeletedAndReloaded =>
             state'.selected_snapshot_index =
                 IF state.selected_snapshot_index >= Len(state'.snapshots)
                 THEN SatSub(Len(state'.snapshots), 1)
                 ELSE state.selected_snapshot_index]_vars

\* a snapshot was deleted with the second row selected, and the list that
\* the reload returned has a second row: it is still the selected one
C23_SelectionKeptAfterDelete ==
    /\ Reloaded
    /\ last.result = "Ok"
    /\ last.deletes = 1
    /\ Len(state.snapshots) = 2
    /\ state.selected_snapshot_index = 1

MoveKeys == {"Up", "Down", "PageUp", "PageDown"}

\* the state after a movement key as C24 gives it: only the selected index
\* of the list shown changes, to max(0, i - step) or min(len - 1, i + step),
\* and not at all when the list is empty
MovedSelection(st, key) ==
    LET len == Len(Backing(st))
        step == IF key \in {"Up", "Down"} THEN 1 ELSE PAGE_SIZE
        to(i) == IF len = 0 THEN i
                 ELSE IF key \in {"Up", "PageUp"} THEN Max(0, i - step)
                 ELSE Min(len - 1, i + step)
    IN  CASE st.current_view.kind = "PoolList" ->
               [st EXCEPT !.selected_pool_index = to(@)]
          [] st.current_view.kind = "DatasetView" ->
               [st EXCEPT !.selected_dataset_index = to(@)]
          [] st.current_view.kind = "SnapshotDetail" ->
               [st EXCEPT !.selected_snapshot_index = to(@)]
          [] OTHER -> st

\* a state that shows `view` with a list of len rows and row i selected
OnRow(view, len, i) ==
    LET row == [name |-> "tank", referenced |-> 1, snapshot_used |-> 500, used |-> 0]
    IN  [InitialState(FALSE) EXCEPT
                      !.current_view = view,
                      !.pools = [k \in 1..len |-> row],
                      !.datasets = [k \in 1..len |-> row],
                      !.snapshots = [k \in 1..len |-> row],
                      !.selected_pool_index = i,
                      !.selected_dataset_index = i,
                      !.selected_snapshot_index = i]

\* the handlers give what C24 gives, on every list of up to MaxRows rows
MovesAsStatedOnLongLists ==
    \A view \in {PoolList, DatasetView("tank"), SnapshotDetail("tank", "tank/home"), Help} :
    \A len \in 0..MaxRows :
    \A i \in 0..SatSub(len, 1) :
    \A key \in MoveKeys :
        LET st == OnRow(view, len, i)
            m == handle_key_event(Machine(st, <<>>, InitialZfs), key, NoDelete, "success")
        IN  /\ view # Help => m.state = MovedSelection(st, key)
            /\ SelectedIndex(m.state) <= SatSub(len, 1)
            /\ [m.state EXCEPT !.selected_theme_index = 0]
                  = [MovedSelection(st, key) EXCEPT !.selected_theme_index = 0]
            /\ m.cache = <<>> /\ m.zfs = InitialZfs

\* C24 as the spec states it (under BrowseSpec): a step of Up, Down, PageUp
\* or PageDown changes only the selected index of the list shown, to
\* max(0, i-1), max(0, i-10), min(len-1, i+1) or min(len-1, i+10), leaves
\* it alone when the list is empty, and changes nothing in Help.
C24_MovementChangesOnlySelection ==
    [][\A key \in MoveKeys :
          KeyPlain({key}, FullHeight) => state' = MovedSelection(state, key)]_vars

\* C24, amended: outside Help such a step changes only the selected index of
\* the list shown, as stated, and the index stays on a row of the list; in
\* Help it changes no view, collection, selection index, scroll offset or
\* sort order, and Up and Down move the theme cursor.  The handlers do the
\* same on every list of up to MaxRows rows.
C24_MovementChangesSelectionOrThemeCursor ==
    /\ [][\A key \in MoveKeys :
             KeyPlain({key}, FullHeight) =>
                /\ state.current_view.kind # "Help" =>
                      /\ state' = MovedSelection(state, key)
                      /\ Within(SelectedIndex(state'), Backing(state'))
                /\ state.current_view.kind = "Help" =>
                      /\ [state' EXCEPT !.selected_theme_index = 0]
                            = [state EXCEPT !.selected_theme_index = 0]
                      /\ state'.selected_theme_index =
                            CASE key = "Up" -> SatSub(state.selected_theme_index, 1)
                              [] key = "Down" -> Min(state.selected_theme_index + 1, 1)
                              [] OTHER -> state.selected_theme_index]_vars
    /\ []MovesAsStatedOnLongLists

\* Down has moved the selection to the second dataset of tank
C24_SecondDatasetSelected ==
    /\ run = "loop"
    /\ state.current_view = DatasetView("tank")
    /\ Len(state.datasets) = 2
    /\ state.selected_dataset_index = 1
    /\ last.op = ""

\* C25 (under NavSpec): in every reachable state the datasets shown in
\* DatasetView are in the current dataset sort order and the snapshots
\* shown in SnapshotDetail are in the current snapshot sort order; and a
\* redraw reorders nothing: update_scroll on a frame of any height, and an
\* iteration of the loop without a key, leave the three collections and the
\* two sort orders as they are.
C25_ShownCollectionsSorted ==
    /\ [](/\ state.current_view.kind = "DatasetView" =>
                DatasetsInOrder(state.dataset_sort_order, state.datasets)
          /\ state.current_view.kind = "SnapshotDetail" =>
                SnapshotsInOrder(state.snapshot_sort_order, state.snapshots)
          /\ \A visible_height \in VisibleHeights :
                LET collections(st) == <<st.pools, st.datasets, st.snapshots,
                                         st.dataset_sort_order, st.snapshot_sort_order>>
                IN  collections(update_scroll(state, visible_height)) = collections(state))
    /\ [][PollTimeout(FullHeight) =>
             /\ state'.pools = state.pools
             /\ state'.datasets = state.datasets
             /\ state'.snapshots = state.snapshots]_vars

\* the two snapshots of tank/home are shown by name, ascending, which is not
\* the order the Inventory Source lists them in
C25_SnapshotsShownByNameAscending ==
    /\ run = "loop"
    /\ state.current_view = SnapshotDetail("tank", "tank/home")
    /\ state.snapshot_sort_order = "NameAsc"
    /\ Len(state.snapshots) = 2
    /\ state.snapshots[1].name = "tank/home@daily-2024-01-14"
    /\ state.snapshots[2].name = "tank/home@daily-2024-01-15"

RECURSIVE ListingsOf(_, _, _)
\* the datasets of those of the first n pools whose index is in listed, in
\* the order of the pools
ListingsOf(pools, listed, n) ==
    IF n = 0 THEN <<>>
    ELSE ListingsOf(pools, listed, n - 1)
         \o (IF n - 1 \in listed THEN ZfsListDatasets(pools[n].name) ELSE <<>>)

C28_PrefetchLeavesNavigationAlone ==
    [][PrefetchStep =>
          /\ state' = state
          /\ zfs' = zfs
          /\ run' = run
          /\ thread_count' = thread_count
          /\ last' = last]_vars

\* a prefetch task has cached the snapshots of tank/home while the user
\* was looking at the snapshots of tank, which stay on display
C28_CachedBehindSnapshotDetail ==
    /\ run = "loop"
    /\ state.current_view = SnapshotDetail("tank", "tank")
    /\ state.snapshots # <<>>
    /\ \E i \in 1..Len(tasks) : tasks[i].dataset = "tank/home" /\ tasks[i].pc = "count"
    /\ "tank/home" \in DOMAIN snapshot_cache
    /\ prefetch_total = 2

\* C29 (under ParseSpec): whatever the tool prints, listing the pools, the
\* datasets or the snapshots does not abort, and returns the records of the
\* lines that have the fields of their record type, in order: a blank line
\* and a line cut short leave no record and keep no other line from being
\* returned, and a size that is no number is read as 0.
C29_ParsingNeverAborts ==
    /\ run # "panicked"
    /\ \A listing \in {"pools", "datasets", "snapshots"} :
       \A stdout \in ToolOutputs(listing) :
          LET r == CASE listing = "pools" -> parse_pools(stdout)
                     [] listing = "datasets" -> parse_datasets(stdout)
                     [] listing = "snapshots" -> parse_snapshots(stdout)
              needed == CASE listing = "pools" -> 10
                          [] listing = "datasets" -> 5
                          [] listing = "snapshots" -> 4
              whole == {i \in 1..Len(stdout) :
                           ~IsBlankLine(stdout[i]) /\ Len(stdout[i]) >= needed}
          IN  /\ r.ok
              /\ Len(r.value) = Cardinality(whole)
              /\ \A k \in 1..Len(r.value) :
                    /\ \E i \in whole : r.value[k].name = stdout[i][1]
                    /\ (\A i \in whole : stdout[i][2] = "x") =>
                          (IF listing = "pools" THEN r.value[k].size ELSE r.value[k].used) = 0

\* C30 (under DataSpec): no step, of a key handler, a foreground load, a
\* reload after a deletion or a prefetch task, removes a key from the
\* snapshot cache; a step that changes the cache inserts or overwrites the
\* entry of one key and leaves every other entry as it is.
C30_CacheNeverEvicts ==
    [][/\ DOMAIN snapshot_cache \subseteq DOMAIN snapshot_cache'
       /\ snapshot_cache' # snapshot_cache =>
             \E d \in DOMAIN snapshot_cache' :
                 snapshot_cache' = CacheInsert(snapshot_cache, d, snapshot_cache'[d])]_vars

\* the entry of tank/home was overwritten by the reload after a deletion,
\* and the entry of tank, written before, is still there
C30_EntryKeptAcrossReload ==
    /\ Reloaded
    /\ last.result = "Ok"
    /\ last.name = "tank/home"
    /\ last.cache_before = "nonempty"
    /\ DOMAIN snapshot_cache = {"tank", "tank/home"}
    /\ snapshot_cache["tank"] # <<>>

(***************************************************************************)
(* The text shown for a failed deletion (under UiSpec).                    *)
(***************************************************************************)
\* the second 'd' called delete_snapshot with the outcome del and it failed
DeleteFailedWith(del) ==
    /\ last'.deletes = 1
    /\ last'.op # "reload_snapshots"
    /\ IsSome(state'.error_message)
    /\ KeyDelete({del}, FullHeight)

\* the text embeds the raw error text
EmbedsRawError(text) == \E i \in 1..Len(text) : text[i] = "Failed to delete snapshot: {e}"

\* the selected snapshot is one the Inventory Source holds now
SelectedExists ==
    LET snapshot == At(state.snapshots, state.selected_snapshot_index)
    IN  snapshot.name \in zfs[DatasetOfSnapshot(snapshot.name)]

\* the class of a diagnostic text, by the first marker it holds in the
\* order permission, not-found, busy
ClassMessage(error) ==
    CASE "permission denied" \in error ->
           "Permission denied. Try running with elevated privileges (sudo)."
      [] "permission denied" \notin error /\ "dataset does not exist" \in error ->
           "Snapshot no longer exists."
      [] error \cap {"permission denied", "dataset does not exist"} = {}
         /\ "dataset is busy" \in error ->
           "Snapshot is currently in use and cannot be deleted."
      [] OTHER -> "Failed to delete snapshot: {e}"

\* C31 (under UiSpec): a failed deletion is classified by the markers of
\* its diagnostic text in the order permission, not-found, busy, other; a
\* snapshot that does not exist gives "Snapshot no longer exists."; only the
\* class other embeds the raw error text; and the status text displayed is
\* that message, between "ERROR: " and " (Press any key to continue)".
C31_FailureClassifiedAndShown ==
    [][\A del \in DeleteOutcomes : DeleteFailedWith(del) =>
          LET message == Unwrap(state'.error_message)
              text == get_delete_help_text(state')
          IN  /\ SelectedExists => message = ClassMessage(del.error)
              /\ ~SelectedExists => message = "Snapshot no longer exists."
              /\ EmbedsRawError(text) <=>
                    (SelectedExists /\ del.error \cap ErrorMarkers = {})
              /\ text = <<"ERROR: ", message, " (Press any key to continue)">>]_vars

\* the snapshot list is stale: the second 'd' was pressed on a snapshot that
\* the Inventory Source no longer holds, and the text says so
C31_DeletedSnapshotNoLongerExists ==
    /\ last.deletes = 1
    /\ state.current_view.kind = "SnapshotDetail"
    /\ zfs["tank/home"] # InitialZfs["tank/home"]
    /\ get_delete_help_text(state) =
          <<"ERROR: ", "Snapshot no longer exists.", " (Press any key to continue)">>

(***************************************************************************)
(* A deletion against a prefetch task in flight (under DataSpec).          *)
(***************************************************************************)
\* the cache entry of dataset_name lists a snapshot that world no longer holds
CacheHoldsDeleted(cache, world, dataset_name) ==
    /\ dataset_name \in DOMAIN cache
    /\ \E i \in 1..Len(cache[dataset_name]) :
          LET name == cache[dataset_name][i].name
          IN  name \notin world[DatasetOfSnapshot(name)]

\* C32 (under DataSpec): once a deletion has succeeded and reload_snapshots
\* has written the entry of the dataset without the deleted snapshot, no
\* step of the prefetch, a task that fetched before the deletion included,
\* puts a deleted snapshot back into that entry.  Stated for the dataset
\* tank, which has no snapshots in the sample table of a failed tool: what
\* a task writes for it is what the tool listed.
C32_DeletedSnapshotStaysOutOfCache ==
    [][(/\ PrefetchStep
        /\ last.op = "reload_snapshots"
        /\ last.result = "Ok"
        /\ last.name = "tank"
        /\ ~CacheHoldsDeleted(snapshot_cache, zfs, last.name)) =>
          ~CacheHoldsDeleted(snapshot_cache', zfs', last.name)]_vars

(***************************************************************************)
(* What the confirming 'd' deletes (under NavSpec).                        *)
(***************************************************************************)
\* C33 (under NavSpec): the snapshot that the confirming second 'd' deletes
\* is the one that was selected when the first 'd' armed the confirmation,
\* which is the one the status text written at that moment names: no Up,
\* Down, PageUp, PageDown or sort toggle in between makes it another one.
C33_DeletesTheArmedSnapshot ==
    [][(/\ KeyDelete(TwoDeleteOutcomes, FullHeight)
        /\ last'.deletes = 1) =>
          \A d \in DOMAIN zfs : \A name \in zfs[d] \ zfs'[d] :
              state.status_help_text =
                  <<"DELETE ", ShortName(name), ": Press 'd' again to CONFIRM">>]_vars

(***************************************************************************)
(* The progress pair shown while the prefetch runs (under ProgressSpec).   *)
(***************************************************************************)
\* C34 (under ProgressSpec): every (completed, total) pair that
\* get_prefetch_progress returns to the renderer has completed <= total.
C34_ProgressPairIsOrdered ==
    progress.pc = "returned" => progress.completed <= progress.total

(***************************************************************************)
(* A load that fails during forward navigation (under NavSpec).            *)
(***************************************************************************)
\* C35 (under NavSpec): when the load that Enter starts fails, the handler
\* leaves the navigation state as the key found it: the current view is
\* not advanced to DatasetView or SnapshotDetail, and the datasets and
\* snapshots on display are unchanged.
C35_FailedLoadLeavesNavigationState ==
    [][(/\ KeyEnter(FullHeight)
        /\ last'.op \in {"load_datasets", "load_snapshots"}
        /\ last'.result = "Err") =>
          /\ state'.current_view = state.current_view
          /\ state'.datasets = state.datasets
          /\ state'.snapshots = state.snapshots]_vars

(***************************************************************************)
(* The pending state after the confirming 'd' (under UiSpec).              *)
(***************************************************************************)
\* C36 (under UiSpec): when the key handler returns from a confirming
\* second 'd', delete_confirmation_pending is false and the timestamp is
\* none, whether the deletion succeeded, the deletion failed, or the
\* deletion succeeded and the reload_snapshots that follows failed.
C36_ConfirmingDeleteAlwaysClears ==
    [][(/\ KeyDelete(DeleteOutcomes, FullHeight)
        /\ last'.deletes = 1) =>
          /\ ~state'.delete_confirmation_pending
          /\ state'.delete_confirmation_timestamp = NoneOpt]_vars

(***************************************************************************)
(* The view recorded for the way back from Help (under UiSpec).            *)
(***************************************************************************)
\* C37 (under UiSpec): in every reachable state previous_view is recorded
\* if and only if the current view is Help, and the view recorded is never
\* Help itself.
C37_PreviousViewOnlyInHelp ==
    /\ IsSome(state.previous_view) <=> state.current_view.kind = "Help"
    /\ IsSome(state.previous_view) => Unwrap(state.previous_view).kind # "Help"

\* Help was opened from the snapshot view of tank/home, and keys were
\* pressed inside it: the theme cursor is off the theme in use
C37_HelpOverSnapshotDetail ==
    /\ state.current_view.kind = "Help"
    /\ state.previous_view = Some(SnapshotDetail("tank", "tank/home"))
    /\ state.selected_theme_index = 1
    /\ state.current_theme = "Dark"

(***************************************************************************)
(* Help and back (under UiSpec).                                           *)
(***************************************************************************)
\* C38 (under UiSpec): opening Help and going back is a round trip.  The
\* step that opens Help records the current view, with its pool and dataset
\* names; every step taken inside Help, whatever the key, keeps the record;
\* the step that leaves Help makes the recorded view the current one; and
\* none of these steps changes a selection index, a scroll offset, a sort
\* key or the pools, datasets and snapshots on display.
C38_HelpIsARoundTrip ==
    [][LET Kept(st) == <<st.selected_pool_index, st.selected_dataset_index,
                         st.selected_snapshot_index, st.dataset_scroll_offset,
                         st.snapshot_scroll_offset, st.dataset_sort_order,
                         st.snapshot_sort_order, st.pools, st.datasets, st.snapshots>>
           in_help == state.current_view.kind = "Help"
           in_help_after == state'.current_view.kind = "Help"
       IN  (in_help \/ in_help_after) =>
              /\ Kept(state') = Kept(state)
              /\ (~in_help /\ in_help_after) =>
                    state'.previous_view = Some(state.current_view)
              /\ (in_help /\ in_help_after) =>
                    state'.previous_view = state.previous_view
              /\ (in_help /\ ~in_help_after) =>
                    state'.current_view = Unwrap(state.previous_view)]_vars

\* back in the snapshot view of tank/home with the second snapshot still
\* selected, after a visit to Help in which the Light theme was applied
C38_BackOnSecondSnapshot ==
    /\ state.current_view = SnapshotDetail("tank", "tank/home")
    /\ state.previous_view = NoneOpt
    /\ state.selected_snapshot_index = 1
    /\ Len(state.snapshots) = 2
    /\ state.current_theme = "Light"
    /\ state.selected_theme_index = 1

(***************************************************************************)
(* The slice that a draw takes (under ScrollSpec).                         *)
(***************************************************************************)
\* on snapshot lists of up to MaxRows rows, drawn at any height from any
\* selection and any earlier scroll offset, the range is within the list
RangeWithinLongLists ==
    \A total_items \in 0..MaxRows, visible_height \in 0..MaxRows,
       offset \in 0..(MaxRows + 1) :
      \A selected \in 0..(IF total_items = 0 THEN 0 ELSE total_items - 1) :
        LET st == update_scroll(
                      [InitialState(FALSE) EXCEPT
                          !.current_view = SnapshotDetail("tank", "tank/home"),
                          !.snapshots = [i \in 1..total_items |->
                                            MockSnapshots("tank/home")[1]],
                          !.selected_snapshot_index = selected,
                          !.snapshot_scroll_offset = offset],
                      visible_height)
            range == get_visible_range(st, total_items, visible_height)
        IN  range[1] <= range[2] /\ range[2] <= total_items

\* C39 (under ScrollSpec): at every draw of the dataset or snapshot view,
\* after update_scroll, the range (start, end) that get_visible_range
\* computes for the height of that draw has start <= end <= the length of
\* the collection, so &collection[start..end] is within bounds; also after
\* a deletion or reload that shrank the collection and for height 0.
C39_VisibleRangeWithinCollection ==
    (run = "loop" /\ IsSome(last.height)
       /\ state.current_view.kind \in {"DatasetView", "SnapshotDetail"}) =>
        LET total_items == IF state.current_view.kind = "DatasetView"
                           THEN Len(state.datasets) ELSE Len(state.snapshots)
            range == get_visible_range(state, total_items, Unwrap(last.height))
        IN  /\ 0 <= range[1]
            /\ range[1] <= range[2]
            /\ range[2] <= total_items
            /\ RangeWithinLongLists

\* the second of two snapshots was deleted and the one left is drawn on a
\* frame without a row for the list: the range is the empty (1, 1)
C39_EmptyRangeAfterDelete ==
    /\ run = "loop"
    /\ last.deletes = 1
    /\ last.op = "reload_snapshots"
    /\ last.height = Some(0)
    /\ state.current_view.kind = "SnapshotDetail"
    /\ Len(state.snapshots) = 1
    /\ state.selected_snapshot_index = 0
    /\ get_visible_range(state, Len(state.snapshots), 0) = <<1, 1>>

====
